---- MODULE Spec2Model ----
(***************************************************************************)
(* Model of copilot-anywhere's agent core: the Tool Engine (AgentTools),   *)
(* its approval gate, and the Agent Controller's plan/execute loop         *)
(* (AgentController.run).                                                  *)
(*                                                                         *)
(* Strings the code inspects character by character (relative paths,      *)
(* allowed roots) are sequences of one-character strings, so that          *)
(* startsWith / endsWith / path.join are computed as the code computes     *)
(* them.  File contents are sequences of UTF-16 code units, stored as      *)
(* UTF-8; the fragment texts of a run are opaque tokens.  The MessageBus    *)
(* is modelled on its own (SpecBus), and so is the ExternalServer with its *)
(* session registry, pending buffers (SpecRouter) and its fan-out to       *)
(* subscribers (SpecFanout); there a fragment text is a sequence of        *)
(* characters, so that join('') is computed.  The two pure functions, the  *)
(* edit preview diff (SpecDiff) and the extraction of JSON candidates      *)
(* (SpecExtract), are applied to all short inputs.  SpecShared, SpecInline, *)
(* SpecRace and SpecLoop add to a run or to one execute call what its       *)
(* environment can do meanwhile: a second run on the same engine, a        *)
(* decision published during the delivery of its request, a file created   *)
(* during an approval wait, a model that never returns JSON.               *)
(***************************************************************************)
EXTENDS Integers, Sequences, FiniteSets, TLC

\* ------------------------------------------------------------------ bounds
MaxBatch == 2      \* longest action batch handed directly to execute()
MaxCalls == 3      \* model requests one run may make
LateWindow == 1    \* during a run, decisions and timer expiry reach the last LateWindow
                   \* approval ids issued
MaxRouterOps == 4  \* requests and bus events one ExternalServer handles
MaxBusOps == 4     \* calls (subscribe, unsubscribe, emit) made on one MessageBus

\* ------------------------------------------------------- program constants
DefaultMaxSteps == 12   \* externalServer /message: parsed.maxSteps || 12

\* ------------------------------------------------------------- path strings
Star == <<"*">>
P_sa == <<"s", "/", "a">>
P_sb == <<"s", "/", "b">>
P_ex == <<"e", "/", "x">>
P_s  == <<"s">>
P_e  == <<"e">>
P_sdn == <<"s", "/", "d", "/", "n">>
R_sSlash == <<"s", "/">>
NoPath == <<>>

\* ------------------------------------------------------------- file contents
\* a content is a JavaScript string: a sequence of UTF-16 code units, of which the
\* model tells apart high surrogates "H", low surrogates "L", U+FFFD "FFFD" and
\* ordinary units (any other token)
NoContent == << "undefined" >>          \* act.content is absent
TextEmpty == <<>>
TextOld == << "o" >>
TextSecret == << "x" >>
TextOne == << "a", "H", "L" >>          \* holds a surrogate pair
TextTwo == << "b" >>
TextLone == << "H", "a" >>              \* holds an unpaired surrogate

\* what writeFile(abs, content, 'utf8') stores: one element per encoded scalar value;
\* a surrogate pair is one scalar value, an unpaired surrogate is stored as U+FFFD
RECURSIVE Utf8Encode(_)
Utf8Encode(s) ==
  IF s = <<>> THEN <<>>
  ELSE IF Len(s) >= 2 /\ s[1] = "H" /\ s[2] = "L"
       THEN << "HL" >> \o Utf8Encode(SubSeq(s, 3, Len(s)))
       ELSE IF s[1] \in {"H", "L"}
            THEN << "FFFD" >> \o Utf8Encode(Tail(s))
            ELSE << s[1] >> \o Utf8Encode(Tail(s))

Utf8Decode_Raw(b) == b
\* what readFileSync(abs, 'utf8') hands back for stored bytes b
RECURSIVE Utf8Decode(_)
Utf8Decode(b) ==
  IF b = <<>> THEN <<>>
  ELSE (IF b[1] = "HL" THEN << "H", "L" >> ELSE << b[1] >>) \o Utf8Decode(Tail(b))

StartsWith(s, p) == Len(p) <= Len(s) /\ SubSeq(s, 1, Len(p)) = p
EndsWithSlash(r) == Len(r) > 0 /\ r[Len(r)] = "/"
Includes(seq, x) == \E i \in 1..Len(seq) : seq[i] = x
Last(seq) == seq[Len(seq)]

\* split a path string on "/"
RECURSIVE SplitPath(_)
SplitPath(s) ==
  IF s = <<>> THEN << <<>> >>
  ELSE LET rest == SplitPath(Tail(s)) IN
       IF Head(s) = "/" THEN << <<>> >> \o rest
       ELSE << <<Head(s)>> \o Head(rest) >> \o Tail(rest)

\* path.normalize on a segment list: "" and "." vanish, ".." pops
RECURSIVE Normalize(_, _)
Normalize(segs, acc) ==
  IF segs = <<>> THEN acc
  ELSE LET h == Head(segs) IN
       IF h = <<>> \/ h = <<".">> THEN Normalize(Tail(segs), acc)
       ELSE IF h = <<".", ".">> /\ acc # <<>> /\ Last(acc) # <<".", ".">>
            THEN Normalize(Tail(segs), SubSeq(acc, 1, Len(acc) - 1))
            ELSE Normalize(Tail(segs), Append(acc, h))

\* path.join(workspaceRoot, rel), as the segments below the workspace root
Join(rel) == Normalize(SplitPath(rel), <<>>)

\* path.dirname of a joined path
Dirname(abs) == IF abs = <<>> THEN <<>> ELSE SubSeq(abs, 1, Len(abs) - 1)

\* the directories mkdir(dir, {recursive: true}) makes sure exist
Ancestors(dir) == { SubSeq(dir, 1, n) : n \in 0..Len(dir) }

VARIABLES
  opts,                 \* AgentToolsOptions: allowedRoots, requireApproval, bus
  files, dirs,          \* the file system below the workspace root
  bulk,                 \* number of further regular files in directory s (beside s/a)
  ioLog,                \* every file-system / process call made, in order
  currentCorrelationId, \* AgentTools.currentCorrelationId
  pendingApprovals,     \* AgentTools.pendingApprovals (its keys)
  promise,              \* approvalId -> state of the promise requestApproval made
  timers,               \* approvalId -> "armed" | "fired" (the 2 minute setTimeout)
  listeners,            \* approvalIds whose onApprovalDecision listener is registered
  resolutions,          \* approvalId -> the values its resolve() was called with
  requester,            \* approvalId -> the action (its index) that asked for it
  approvalRequests,     \* ApprovalRequests emitted on the bus, in order
  decisions,            \* ApprovalDecisions published on the bus
  nextId,               \* source of fresh approval ids
  tpc, batch, ai, results, awaiting,  \* one execute() call: position, input, output
  pc,                   \* AgentController.run: where the run is
  runOpts,              \* AgentRunOptions: id, maxSteps
  step,                 \* the for loop's step
  emptyActionRetries,
  history,              \* the chat messages sent with each model request
  rawJson,              \* the candidate that parsed in the current iteration
  outbound,             \* fragments published with bus.emitOutbound, in order
  calls,                \* what each model request of the run came back with
  exception,            \* what run()'s promise rejected with ("" = nothing)
  executeCount,         \* number of tools.execute calls made by the run
  busListeners,         \* MessageBus: event kind -> its listener Set, in insertion order
  busHandles,           \* MessageBus: the unsubscribe handles handed out, <<kind, listener>>
  publishes,            \* MessageBus: every emit call made, with what it did
  busOps,               \* MessageBus: number of calls made on the bus
  sessions,             \* ExternalServer.sessions, in insertion order: id, messages
  sseClients,           \* ExternalServer.sseClients, in insertion order
  clientSessionMap,     \* ExternalServer.clientSessionMap: client -> session filter
  messageSessionIndex,  \* ExternalServer.messageSessionIndex: message id -> session id
  pendingOutboundBuffers, \* ExternalServer.pendingOutboundBuffers: id -> fragments, done
  approvalSessionIndex, \* ExternalServer.approvalSessionIndex: approval id -> session id
  broadcasts,           \* the payloads the last handler passed to broadcast(), in order
  written,              \* the client.write calls the last handler made: client, payload
  inboundHandled,       \* the ids of the inbound messages the onInbound listener handled
  passedOver,           \* for the fragments now buffered: the filtered subscribers that
                        \* were connected when one was published and were not written it
  routerOps,            \* number of requests and bus events the server has handled
  oldStr, newStr,       \* buildUnifiedDiff: its two contents
  hunks,                \* buildUnifiedDiff: the hunks it collected (inside << >> once called)
  fullText,             \* run: `full`, the text one model response streamed
  parsedText            \* run: `rawJson`, the candidate JSON.parse accepted (inside << >> once tried)

toolVars == << opts, bulk, files, dirs, ioLog, currentCorrelationId, pendingApprovals,
               promise, timers, listeners, resolutions, requester,
               approvalRequests, decisions, nextId, tpc, batch, ai, results, awaiting >>

runVars == << pc, runOpts, step, emptyActionRetries, history, rawJson, outbound,
              calls, exception, executeCount >>

busVars == << busListeners, busHandles, publishes, busOps >>

routerVars == << sessions, sseClients, clientSessionMap, messageSessionIndex,
                 pendingOutboundBuffers, approvalSessionIndex, broadcasts, written,
                 inboundHandled, passedOver, routerOps >>

fnVars == << oldStr, newStr, hunks, fullText, parsedText >>

vars == << toolVars, runVars, busVars, routerVars, fnVars >>

\* ------------------------------------------------------------ tool actions
ToolAction(tool) ==
  [tool |-> tool, path |-> NoPath, content |-> NoContent, files |-> <<>>,
   max |-> 0, command |-> "", cwd |-> NoPath]
ReadFilesAction(fs)     == [ToolAction("readFiles") EXCEPT !.files = fs]
ListFilesAction(max)    == [ToolAction("listFiles") EXCEPT !.max = max]
CreateFileAction(p, c)  == [ToolAction("createFile") EXCEPT !.path = p, !.content = c]
EditFileAction(p, c)    == [ToolAction("editFile") EXCEPT !.path = p, !.content = c]
RunCommandAction(c, d)  == [ToolAction("runCommand") EXCEPT !.command = c, !.cwd = d]

\* ToolResult { tool, success, detail?, error? }
NoRun == [code |-> 0, timedOut |-> FALSE, stdout |-> "", stderr |-> ""]
NoDetail == [path |-> NoPath, read |-> <<>>, listed |-> {}, listedBulk |-> 0,
             truncated |-> FALSE, run |-> NoRun]
ToolResult(tool, success, error, detail) ==
  [tool |-> tool, success |-> success, error |-> error, detail |-> detail]
Failure(tool, error) == ToolResult(tool, FALSE, error, NoDetail)

\* ------------------------------------------------------------ file system
Exists(abs) == abs \in DOMAIN files \/ abs \in dirs          \* fs.existsSync
Io(op, rel) == [act |-> ai, tool |-> batch[ai].tool, op |-> op, rel |-> rel]

\* AgentTools.isAllowed
isAllowed(rel) ==
  IF Includes(opts.allowedRoots, Star) THEN TRUE
  ELSE \E i \in 1..Len(opts.allowedRoots) :
         LET root == opts.allowedRoots[i] IN
           \/ root = rel
           \/ EndsWithSlash(root) /\ StartsWith(rel, root)
           \/ StartsWith(rel, root \o <<"/">>)

\* ------------------------------------------------------- execute(): one action
\* the catch clause of execute's loop body: one failed result for the action
Caught_Unshift(res, a, msg) == << Failure(a.tool, msg) >> \o res
Caught(res, a, msg) == Append(res, Failure(a.tool, msg))

\* the for loop of execute: where control goes after the action at index i of n
AfterAction_StopOnFailure(i, n, r) == IF i >= n \/ ~r.success THEN "returned" ELSE "next"
AfterAction(i, n, r) == IF i >= n THEN "returned" ELSE "next"

\* the action at ai is finished with result list res and the calls io
Finish(res, io) ==
  /\ results' = res
  /\ ioLog' = ioLog \o io
  /\ ai' = ai + 1
  /\ tpc' = AfterAction(ai, Len(batch), Last(res))
  /\ awaiting' = [kind |-> "none", id |-> 0]

approvalVars == << pendingApprovals, promise, timers, listeners, resolutions,
                   requester, approvalRequests, nextId >>

\* readFiles: the loop over act.files; threw = readFileSync failed (a directory)
RECURSIVE ReadEntries(_, _)
ReadEntries(fs, acc) ==
  IF fs = <<>> \/ acc.threw THEN acc
  ELSE LET f == Head(fs)
           abs == Join(f)
           entry(c, e) == [path |-> f, content |-> c, error |-> e]
       IN IF ~isAllowed(f)
          THEN ReadEntries(Tail(fs),
                 [acc EXCEPT !.entries = Append(@, entry(NoContent, "Not allowed"))])
          ELSE IF ~Exists(abs)
          THEN ReadEntries(Tail(fs),
                 [acc EXCEPT !.entries = Append(@, entry(NoContent, "Not found")),
                             !.io = Append(@, Io("exists", f))])
          ELSE IF abs \in DOMAIN files
          THEN ReadEntries(Tail(fs),
                 [acc EXCEPT !.entries = Append(@, entry(Utf8Decode(files[abs]), "")),
                             !.io = @ \o << Io("exists", f), Io("read", f) >>])
          ELSE [acc EXCEPT !.io = @ \o << Io("exists", f), Io("read", f) >>,
                           !.threw = TRUE]

ExecReadFiles ==
  /\ tpc = "next" /\ batch[ai].tool = "readFiles"
  /\ LET r == ReadEntries(batch[ai].files, [entries |-> <<>>, io |-> <<>>, threw |-> FALSE])
     IN IF r.threw
        THEN Finish(Caught(results, batch[ai], "EISDIR"), r.io)
        ELSE Finish(Append(results, ToolResult("readFiles", TRUE, "",
                       [NoDetail EXCEPT !.read = r.entries])), r.io)
  /\ UNCHANGED << opts, bulk, files, dirs, currentCorrelationId, approvalVars, decisions, batch >>
  /\ UNCHANGED << runVars, busVars, routerVars, fnVars >>

\* ---- listFiles
ListCapMax == 500
ListCapDefault == 200
Min(a, b) == IF a <= b THEN a ELSE b
ListCap_NoCeiling(max) == IF max > 0 THEN max ELSE ListCapDefault
ListCap(max) == IF max > 0 THEN Min(max, ListCapMax) ELSE ListCapDefault

RECURSIVE Unsplit(_)
Unsplit(segs) ==
  IF segs = <<>> THEN <<>>
  ELSE IF Len(segs) = 1 THEN Head(segs)
  ELSE Head(segs) \o <<"/">> \o Unsplit(Tail(segs))

StripSlash(root) == IF EndsWithSlash(root) THEN SubSeq(root, 1, Len(root) - 1) ELSE root
WalkRoots == IF Includes(opts.allowedRoots, Star) THEN << <<>> >> ELSE opts.allowedRoots

\* the relative paths the walk can collect: regular files below a walked root
\* (readdir of a root that is no directory fails and yields nothing) that pass
\* isAllowed under the name the walk builds for them
Walkable ==
  { rel \in { Unsplit(f) : f \in DOMAIN files } :
      /\ isAllowed(rel)
      /\ \E i \in 1..Len(WalkRoots) :
           LET d == Join(StripSlash(WalkRoots[i])) IN
             d \in dirs /\ Len(d) < Len(Join(rel)) /\ SubSeq(Join(rel), 1, Len(d)) = d }

\* the bulk files lie in directory s, which every root choice of the model walks
\* and allows; the walk pushes a file while collected.length < max and stops at
\* max.  readdir order is the platform's: any part of the walkable files of that
\* size, `collected` by name and `n` of the bulk files
ExecListFiles ==
  /\ tpc = "next" /\ batch[ai].tool = "listFiles"
  /\ LET max == ListCap(batch[ai].max)
         length == Min(max, Cardinality(Walkable) + bulk)
     IN
     \E collected \in SUBSET Walkable :
       LET n == length - Cardinality(collected) IN
       /\ n \in 0..bulk
       /\ Finish(Append(results, ToolResult("listFiles", TRUE, "",
                    [NoDetail EXCEPT !.listed = collected, !.listedBulk = n,
                                     !.truncated = length >= max])),
                 << Io("readdir", NoPath) >>)
  /\ UNCHANGED << opts, bulk, files, dirs, currentCorrelationId, approvalVars, decisions, batch >>
  /\ UNCHANGED << runVars, busVars, routerVars, fnVars >>

\* ---- runCommand
CmdOutcomes ==
  { [code |-> 0, timedOut |-> FALSE, stdout |-> "out", stderr |-> ""],
    [code |-> 1, timedOut |-> TRUE, stdout |-> "", stderr |-> "err"] }

ExecRunCommand ==
  /\ tpc = "next" /\ batch[ai].tool = "runCommand"
  /\ LET act == batch[ai] IN
     \/ /\ act.command = ""
        /\ Finish(Caught(results, act, "Missing command"), <<>>)
     \/ /\ act.command # "" /\ act.cwd # NoPath /\ ~isAllowed(act.cwd)
        /\ Finish(Caught(results, act, "cwd not allowed"), <<>>)
     \/ /\ act.command # "" /\ (act.cwd = NoPath \/ isAllowed(act.cwd))
        /\ opts.requireApproval          \* showQuickPick: anything but 'Run command'
        /\ Finish(Caught(results, act, "User rejected command"), <<>>)
     \/ /\ act.command # "" /\ (act.cwd = NoPath \/ isAllowed(act.cwd))
        /\ \E out \in CmdOutcomes :
             Finish(Append(results, ToolResult("runCommand", TRUE, "",
                        [NoDetail EXCEPT !.path = act.cwd, !.run = out])),
                    << Io("exec", act.cwd) >>)
  /\ UNCHANGED << opts, bulk, files, dirs, currentCorrelationId, approvalVars, decisions, batch >>
  /\ UNCHANGED << runVars, busVars, routerVars, fnVars >>

\* ---- any other tool name
ExecUnknownTool ==
  /\ tpc = "next"
  /\ batch[ai].tool \notin {"readFiles", "listFiles", "createFile", "editFile", "runCommand"}
  /\ Finish(Append(results,
              Failure(IF batch[ai].tool = "" THEN "unknown" ELSE batch[ai].tool, "Unknown tool")),
            <<>>)
  /\ UNCHANGED << opts, bulk, files, dirs, currentCorrelationId, approvalVars, decisions, batch >>
  /\ UNCHANGED << runVars, busVars, routerVars, fnVars >>

\* ---- createFile / editFile up to the approval wait
NoId == ""

\* createFile before requestApproval: the calls made and the error thrown ("" = none)
CreateFilePre_Overwrites(act) ==
  IF ~isAllowed(act.path) THEN [io |-> <<>>, error |-> "Not allowed"]
  ELSE [io |-> << Io("exists", act.path) >>, error |-> ""]
CreateFilePre_ExistsFirst(act) ==
  IF Exists(Join(act.path))
  THEN [io |-> << Io("exists", act.path) >>, error |-> "File exists"]
  ELSE IF ~isAllowed(act.path)
       THEN [io |-> << Io("exists", act.path) >>, error |-> "Not allowed"]
       ELSE [io |-> << Io("exists", act.path) >>, error |-> ""]
CreateFilePre(act) ==
  IF ~isAllowed(act.path) THEN [io |-> <<>>, error |-> "Not allowed"]
  ELSE IF Exists(Join(act.path))
       THEN [io |-> << Io("exists", act.path) >>, error |-> "File exists"]
       ELSE [io |-> << Io("exists", act.path) >>, error |-> ""]

\* editFile before requestApproval; "No content" is pushed as a result, not thrown
EditFilePre(act) ==
  IF ~isAllowed(act.path) THEN [io |-> <<>>, error |-> "Not allowed"]
  ELSE IF ~Exists(Join(act.path))
       THEN [io |-> << Io("exists", act.path) >>, error |-> "File missing"]
       ELSE IF act.content \in {TextEmpty, NoContent}
            THEN [io |-> << Io("exists", act.path) >>, error |-> "No content field"]
            ELSE [io |-> << Io("exists", act.path), Io("read", act.path) >>, error |-> ""]

\* what requestApproval hands back when a bus is configured or not
ApprovalAnswer(id) ==
  IF opts.bus THEN [kind |-> "promise", id |-> id] ELSE [kind |-> "value", id |-> id]

\* AgentTools.requestApproval, up to its return
RequestApproval(kind, pathRel) ==
  IF ~opts.requireApproval
  THEN /\ awaiting' = [kind |-> "value", id |-> 0]
       /\ UNCHANGED approvalVars
  ELSE LET id == nextId IN
       /\ nextId' = nextId + 1
       /\ pendingApprovals' = pendingApprovals \cup {id}
       /\ promise' = (id :> "pending") @@ promise
       /\ timers' = (id :> "armed") @@ timers
       /\ resolutions' = (id :> <<>>) @@ resolutions
       /\ requester' = (id :> ai) @@ requester
       /\ approvalRequests' =
            IF opts.bus
            THEN Append(approvalRequests,
                   [approvalId |-> id,
                    correlationId |-> IF currentCorrelationId = NoId THEN "N/A"
                                      ELSE currentCorrelationId,
                    action |-> kind, path |-> pathRel])
            ELSE approvalRequests
       /\ listeners' = IF opts.bus THEN listeners \cup {id} ELSE listeners
       /\ awaiting' = ApprovalAnswer(id)

WritePre(act) == IF act.tool = "createFile" THEN CreateFilePre(act) ELSE EditFilePre(act)

\* createFile / editFile up to the approval wait.  `answers` holds what the
\* approval-request listeners publish as decisions while emitApprovalRequest is
\* delivering the request to them: the listener of this request is registered
\* only after the emit returns, and the listeners of earlier requests compare
\* the approval id, so such a decision reaches nobody
WriteBegin(answers) ==
  /\ tpc = "next" /\ batch[ai].tool \in {"createFile", "editFile"}
  /\ LET act == batch[ai]
         pre == WritePre(act)
     IN IF pre.error # ""
        THEN /\ Finish(Caught(results, act, pre.error), pre.io)
             /\ UNCHANGED approvalVars
        ELSE /\ RequestApproval(act.tool, act.path)
             /\ ioLog' = ioLog \o pre.io
             /\ tpc' = "awaitApproval"
             /\ UNCHANGED << results, ai >>
  /\ decisions' = decisions \cup { [approvalId |-> nextId, approved |-> a] : a \in answers }
  /\ UNCHANGED << opts, bulk, files, dirs, currentCorrelationId, batch >>
  /\ UNCHANGED << runVars, busVars, routerVars, fnVars >>

\* no request listener answers from inside the delivery (none of the repository does)
ExecWriteBegin == WriteBegin({})

\* a request listener answers the request while it is being delivered
RequestEmitted ==
  /\ tpc = "next" /\ batch[ai].tool \in {"createFile", "editFile"}
  /\ WritePre(batch[ai]).error = "" /\ opts.requireApproval /\ opts.bus
ExecWriteBeginAnswered(approved) == RequestEmitted /\ WriteBegin({approved})

\* ---- createFile / editFile after the approval wait
\* const approved = await this.requestApproval(...)
Approved_Ignored == TRUE
Approved ==
  IF awaiting.kind = "value" THEN TRUE ELSE promise[awaiting.id] = "approved"

ExecWriteResume ==
  /\ tpc = "awaitApproval"
  /\ awaiting.kind = "promise" => promise[awaiting.id] # "pending"
  /\ LET act == batch[ai]
         abs == Join(act.path)
         dir == Dirname(abs)
         ok(io) == Finish(Append(results, ToolResult(act.tool, TRUE, "",
                            [NoDetail EXCEPT !.path = act.path])), io)
         content == IF act.content = NoContent THEN TextEmpty ELSE act.content
     IN IF ~Approved
        THEN /\ Finish(Caught(results, act,
                   IF act.tool = "createFile" THEN "User rejected create"
                   ELSE "User rejected edit"), <<>>)
             /\ UNCHANGED << files, dirs >>
        ELSE IF act.tool = "createFile" /\ \E d \in Ancestors(dir) : d \in DOMAIN files
        THEN /\ Finish(Caught(results, act, "ENOTDIR"), << Io("mkdir", act.path) >>)
             /\ UNCHANGED << files, dirs >>
        ELSE IF abs \in dirs
        THEN /\ Finish(Caught(results, act, "EISDIR"),
                   IF act.tool = "createFile"
                   THEN << Io("mkdir", act.path), Io("write", act.path) >>
                   ELSE << Io("write", act.path) >>)
             /\ dirs' = IF act.tool = "createFile" THEN dirs \cup Ancestors(dir) ELSE dirs
             /\ UNCHANGED files
        ELSE /\ files' = (abs :> Utf8Encode(content)) @@ files
             /\ dirs' = IF act.tool = "createFile" THEN dirs \cup Ancestors(dir) ELSE dirs
             /\ ok(IF act.tool = "createFile"
                   THEN << Io("mkdir", act.path), Io("write", act.path) >>
                   ELSE << Io("write", act.path) >>)
  /\ UNCHANGED << opts, bulk, currentCorrelationId, approvalVars, decisions, batch >>
  /\ UNCHANGED << runVars, busVars, routerVars, fnVars >>

\* ------------------------------------------------- approval decisions, timeout
\* resolve() of a promise: only the first call settles it
Settle_Never(p, v) == p
Settle(p, v) == IF p = "pending" THEN (IF v THEN "approved" ELSE "rejected") ELSE p

\* pendingApprovals.delete(id)
AfterResolve_NoDelete(pending, id) == pending
AfterResolve(pending, id) == pending \ {id}

\* entry.resolve(v); this.pendingApprovals.delete(id)
Resolve(id, v) ==
  /\ promise' = [promise EXCEPT ![id] = Settle(@, v)]
  /\ resolutions' = [resolutions EXCEPT ![id] = Append(@, v)]
  /\ pendingApprovals' = AfterResolve(pendingApprovals, id)

\* the listener requestApproval registered for approval id l sees decision d
ListenerMatches(l, d) == d.approvalId = l

\* bus.emitApprovalDecision({approvalId, approved}) on the bus the engine was built
\* with: every registered listener runs
ApprovalDecision(id, approved) ==
  /\ opts.bus
  /\ decisions' = decisions \cup {[approvalId |-> id, approved |-> approved]}
  /\ LET d == [approvalId |-> id, approved |-> approved]
         hit == { l \in listeners : ListenerMatches(l, d) /\ l \in pendingApprovals }
     IN IF hit # {}
        THEN Resolve(CHOOSE l \in hit : TRUE, approved)
        ELSE UNCHANGED << promise, resolutions, pendingApprovals >>
  /\ UNCHANGED << opts, bulk, files, dirs, ioLog, currentCorrelationId, timers, listeners,
                  requester, approvalRequests, nextId, tpc, batch, ai, results, awaiting >>
  /\ UNCHANGED << runVars, busVars, routerVars, fnVars >>

\* the setTimeout callback of requestApproval
ApprovalTimeout(id) ==
  /\ id \in DOMAIN timers /\ timers[id] = "armed"
  /\ timers' = [timers EXCEPT ![id] = "fired"]
  /\ IF id \in pendingApprovals
     THEN Resolve(id, FALSE)
     ELSE UNCHANGED << promise, resolutions, pendingApprovals >>
  /\ UNCHANGED << opts, bulk, files, dirs, ioLog, currentCorrelationId, listeners,
                  requester, approvalRequests, decisions, nextId, tpc, batch, ai, results, awaiting >>
  /\ UNCHANGED << runVars, busVars, routerVars, fnVars >>

\* ------------------------------------------------------------ configurations
RootChoices == { << P_s >>, << Star >>, << R_sSlash >> }
\* the root with a trailing slash is tried on engines without the approval gate
OptsChoices ==
  { o \in { [allowedRoots |-> r, requireApproval |-> a, bus |-> b] :
              r \in RootChoices, a \in BOOLEAN, b \in BOOLEAN } :
      o.allowedRoots = << R_sSlash >> => ~o.requireApproval }

InitialFiles == (Join(P_sa) :> Utf8Encode(TextOld)) @@ (Join(P_ex) :> Utf8Encode(TextSecret))
InitialDirs == { <<>>, Join(P_s), << <<"e">> >> }

ToolActions ==
  { ReadFilesAction(<< P_ex, P_sa, P_sb, P_sdn >>),
    ListFilesAction(1),
    CreateFileAction(P_sdn, TextOne),
    CreateFileAction(P_sdn, TextLone),
    CreateFileAction(P_ex, TextOne),
    EditFileAction(P_sa, TextTwo),
    EditFileAction(P_ex, TextTwo),
    EditFileAction(P_sa, TextEmpty),
    RunCommandAction("cmd", NoPath),
    RunCommandAction("cmd", P_e),
    ToolAction("bogus") }

RECURSIVE SeqsUpTo(_, _)
SeqsUpTo(S, n) ==
  IF n = 0 THEN { <<>> }
  ELSE LET shorter == SeqsUpTo(S, n - 1) IN
       shorter \cup { Append(q, x) : q \in shorter, x \in S }

InitEngine ==
  /\ files = InitialFiles /\ dirs = InitialDirs
  /\ ioLog = <<>>
  /\ currentCorrelationId = NoId
  /\ pendingApprovals = {} /\ promise = <<>> /\ timers = <<>> /\ listeners = {}
  /\ resolutions = <<>> /\ requester = <<>> /\ approvalRequests = <<>> /\ decisions = {}
  /\ nextId = 1
  /\ ai = 1 /\ results = <<>> /\ awaiting = [kind |-> "none", id |-> 0]

InitRun ==
  /\ pc = "idle" /\ runOpts = [id |-> NoId, maxSteps |-> 0]
  /\ step = 0 /\ emptyActionRetries = 0
  /\ history = <<>> /\ rawJson = <<>> /\ outbound = <<>> /\ calls = <<>>
  /\ exception = "" /\ executeCount = 0

\* a MessageBus as constructed: four empty listener Sets
BusKinds == {"outbound", "approvalDecision"}
InitBus ==
  /\ busListeners = [k \in BusKinds |-> <<>>] /\ busHandles = {}
  /\ publishes = <<>> /\ busOps = 0

\* an ExternalServer as constructed: empty maps, no client
InitServer ==
  /\ sseClients = <<>> /\ clientSessionMap = <<>>
  /\ messageSessionIndex = <<>> /\ pendingOutboundBuffers = <<>>
  /\ approvalSessionIndex = <<>>
  /\ broadcasts = <<>> /\ written = <<>> /\ inboundHandled = {} /\ passedOver = {}
  /\ routerOps = 0
\* the server not started: no session yet
NotStarted == InitServer /\ sessions = <<>>

\* neither buildUnifiedDiff nor the candidate extraction has been given an input
NotCalled ==
  /\ oldStr = <<>> /\ newStr = <<>> /\ hunks = <<>>
  /\ fullText = <<>> /\ parsedText = <<>>

\* a direct call of execute(actions) on a freshly constructed AgentTools
InitTools ==
  /\ InitEngine /\ InitRun /\ InitBus /\ NotStarted /\ NotCalled
  /\ bulk = 0
  /\ opts \in OptsChoices
  /\ batch \in SeqsUpTo(ToolActions, MaxBatch)
  /\ tpc = IF batch = <<>> THEN "returned" ELSE "next"

\* ------------------------------------------------------- AgentController.run
Fragment(id, text, done, model) ==
  [id |-> id, fragment |-> text, done |-> done, model |-> model]
ModelName == "m"

Message(role, text, payload) == [role |-> role, text |-> text, payload |-> payload]

\* what one model request comes back with, as run() reads it: whether a candidate
\* parses, and the fields of the parsed object
Response(done, summary, commentary, actions) ==
  [parses |-> TRUE, done |-> done, finalSummary |-> summary,
   commentary |-> commentary, actions |-> actions]
Unparsed == [Response(FALSE, "", "", <<>>) EXCEPT !.parses = FALSE]

PlanA == << EditFileAction(P_ex, TextTwo), CreateFileAction(P_sdn, TextOne),
            ReadFilesAction(<< P_ex, P_sa, P_sdn >>) >>
PlanB == << ListFilesAction(1), ToolAction("bogus"), RunCommandAction("cmd", NoPath) >>

Responses ==
  { Unparsed,
    Response(TRUE, "sum", "", <<>>),
    Response(TRUE, "", "why", PlanA),
    Response(FALSE, "", "why", <<>>),
    Response(FALSE, "", "why", PlanA),
    Response(FALSE, "", "", PlanB) }

\* if (parsed.done)
IsDone_Ignored(parsed) == FALSE
IsDone(parsed) == parsed.done

\* if (emptyActionRetries > 2), after the increment
TooManyEmptyRetries_OneMore(n) == n > 3
TooManyEmptyRetries(n) == n > 2

\* for (...; step < opts.maxSteps; ...)
LoopContinues_Inclusive(s, maxSteps) == s <= maxSteps
LoopContinues(s, maxSteps) == s < maxSteps

\* step--; continue: the for loop's step++ then runs, and the same step is redone
RedoStep_Counts(s) == s + 1
RedoStep(s) == (s - 1) + 1

\* if (commentary) emitOutbound(commentary)
Commentary_Dropped(out, r, id) == out
Commentary(out, r, id) ==
  IF r.commentary # "" THEN Append(out, Fragment(id, "commentary", FALSE, ModelName))
  ELSE out

\* `TOOL_RESULTS:\n${JSON.stringify(results)}`: every element of results, in order
Feedback_SuccessOnly(res) == SelectSeq(res, LAMBDA r : r.success)
Feedback(res) == res

\* await this.tools.execute(actions): the promise execute returned is fulfilled
ExecuteSettled_NotAwaited == tpc \in {"returned", "awaitApproval"}
ExecuteSettled == tpc = "returned"

CallKind(r) ==
  IF ~r.parses THEN "unparsed"
  ELSE IF r.done THEN "done"
  ELSE IF r.actions = <<>> THEN "empty" ELSE "batch"

\* the head of the for loop with step = s, up to the first await of the body,
\* or the code after the loop
EnterLoop(s, maxSteps, id, out) ==
  /\ step' = s
  /\ IF LoopContinues(s, maxSteps)
     THEN /\ pc' = "select"
          /\ outbound' = IF s > 0 THEN Append(out, Fragment(id, "spacer", FALSE, "agent"))
                          ELSE out
     ELSE /\ pc' = "returned"
          /\ outbound' = Append(out, Fragment(id, "Agent reached max steps", TRUE, ""))

\* externalServer POST /message with mode 'agent' (maxSteps: parsed.maxSteps || 12),
\* or the chat participant (maxSteps: 12): agent.run is called
RunIds == {"r1"}
RequestedMaxSteps == {-1, 0, 1, 2}

AgentRun(id, requested) ==
  /\ pc = "idle"
  /\ LET maxSteps == IF requested = 0 THEN DefaultMaxSteps ELSE requested IN
     /\ runOpts' = [id |-> id, maxSteps |-> maxSteps]
     /\ EnterLoop(0, maxSteps, id, outbound)
  /\ currentCorrelationId' = id
  /\ history' = << Message("system", "SYSTEM_PROMPT", <<>>), Message("user", "goal", <<>>) >>
  /\ emptyActionRetries' = 0
  /\ UNCHANGED << opts, bulk, files, dirs, ioLog, approvalVars, decisions,
                  tpc, batch, ai, results, awaiting >>
  /\ UNCHANGED << rawJson, calls, exception, executeCount >>
  /\ UNCHANGED << busVars, routerVars, fnVars >>

\* await vscode.lm.selectChatModels({})
SelectModelWithin(cap, outcome) ==
  /\ pc = "select" /\ Len(calls) < cap
  /\ CASE outcome = "model" ->
            /\ pc' = "request"
            /\ UNCHANGED << outbound, exception >>
       [] outcome = "none" ->
            /\ pc' = "returned"
            /\ outbound' = Append(outbound,
                 Fragment(runOpts.id, "No chat model available for agent.", TRUE, ""))
            /\ UNCHANGED exception
       [] outcome = "throws" ->
            /\ pc' = "threw"
            /\ exception' = "selectChatModels"
            /\ UNCHANGED outbound
  /\ UNCHANGED << toolVars, busVars, routerVars, fnVars >>
  /\ UNCHANGED << runOpts, step, emptyActionRetries, history, rawJson, calls, executeCount >>

SelectModel(outcome) == SelectModelWithin(MaxCalls, outcome)

\* model.sendRequest rejects, or reading chatResponse.text does
ModelFails(where) ==
  /\ pc = "request"
  /\ pc' = "threw"
  /\ exception' = where
  /\ calls' = Append(calls, "threw")
  /\ UNCHANGED << toolVars, busVars, routerVars, fnVars >>
  /\ UNCHANGED << runOpts, step, emptyActionRetries, history, rawJson, outbound, executeCount >>

\* the full response text is in: parse, then everything up to the next await
ModelResponds(r) ==
  /\ pc = "request"
  /\ calls' = Append(calls, CallKind(r))
  /\ LET id == runOpts.id
         say(out, text, done) == Append(out, Fragment(id, text, done, ModelName))
         commented == Commentary(outbound, r, id)
     IN
     IF ~r.parses
     THEN /\ history' = history \o << Message("assistant", "full", <<>>),
                                       Message("user", "retryMsg", <<>>) >>
          /\ EnterLoop(RedoStep(step), runOpts.maxSteps, id,
                       say(outbound, "parseNote", FALSE))
          /\ UNCHANGED << emptyActionRetries, rawJson, executeCount,
                          tpc, batch, ai, results >>
     ELSE IF IsDone(r)
     THEN /\ pc' = "returned"
          /\ outbound' = say(outbound,
                IF r.finalSummary # "" THEN r.finalSummary ELSE "Agent finished.", TRUE)
          /\ rawJson' = << r >>
          /\ UNCHANGED << step, emptyActionRetries, history, executeCount,
                          tpc, batch, ai, results >>
     ELSE IF r.actions = <<>>
     THEN /\ emptyActionRetries' = emptyActionRetries + 1
          /\ rawJson' = << r >>
          /\ IF TooManyEmptyRetries(emptyActionRetries + 1)
             THEN /\ pc' = "returned"
                  /\ outbound' = say(commented,
                        "Agent produced empty actions repeatedly. Aborting.", TRUE)
                  /\ UNCHANGED << step, history >>
             ELSE /\ history' = history \o << Message("assistant", "rawJson", << r >>),
                                               Message("user", "correction", <<>>) >>
                  /\ EnterLoop(RedoStep(step), runOpts.maxSteps, id, commented)
          /\ UNCHANGED << executeCount, tpc, batch, ai, results >>
     ELSE /\ emptyActionRetries' = 0
          /\ rawJson' = << r >>
          /\ outbound' = say(commented, "actionSummary", FALSE)
          /\ pc' = "executing"
          /\ executeCount' = executeCount + 1
          /\ batch' = r.actions /\ ai' = 1 /\ results' = <<>> /\ tpc' = "next"
          /\ UNCHANGED << step, history >>
  /\ UNCHANGED << opts, bulk, files, dirs, ioLog, currentCorrelationId, approvalVars,
                  decisions, awaiting >>
  /\ UNCHANGED << runOpts, exception >>
  /\ UNCHANGED << busVars, routerVars, fnVars >>

\* the fragments run() publishes for the results of one batch
RECURSIVE RunLines(_, _)
RunLines(res, id) ==
  IF res = <<>> THEN <<>>
  ELSE LET r == Head(res)
           d == r.detail.run
       IN (IF r.tool = "runCommand" /\ r.success
           THEN << Fragment(id, "[run]", FALSE, ModelName) >>
                \o (IF d.stdout # "" THEN << Fragment(id, "[stdout]", FALSE, ModelName) >>
                    ELSE <<>>)
                \o (IF d.stderr # "" THEN << Fragment(id, "[stderr]", FALSE, ModelName) >>
                    ELSE <<>>)
           ELSE <<>>)
          \o RunLines(Tail(res), id)

\* await this.tools.execute(actions) is over: the rest of the loop body
ExecuteReturns ==
  /\ pc = "executing" /\ ExecuteSettled
  /\ tpc' = "idle"
  /\ history' = history \o << Message("assistant", "rawJson", rawJson),
                               Message("user", "TOOL_RESULTS", Feedback(results)) >>
  /\ EnterLoop(step + 1, runOpts.maxSteps, runOpts.id,
               (outbound \o RunLines(results, runOpts.id))
                 \o << Fragment(runOpts.id, "results", FALSE, ModelName) >>)
  /\ UNCHANGED << opts, bulk, files, dirs, ioLog, currentCorrelationId, approvalVars,
                  decisions, batch, ai, results, awaiting >>
  /\ UNCHANGED << runOpts, emptyActionRetries, rawJson, calls, exception, executeCount >>
  /\ UNCHANGED << busVars, routerVars, fnVars >>

\* one agent run on the configuration activate() builds
InitAgent ==
  /\ InitEngine /\ InitRun /\ InitBus /\ NotStarted /\ NotCalled
  /\ bulk = 0
  /\ opts \in { o \in OptsChoices : o.allowedRoots = << P_s >> /\ (o.requireApproval \/ o.bus) }
  /\ batch = <<>> /\ tpc = "idle"

ToolSteps ==
  \/ ExecReadFiles
  \/ ExecListFiles
  \/ ExecRunCommand
  \/ ExecUnknownTool
  \/ ExecWriteBegin
  \/ ExecWriteResume

NextTools ==
  \/ ToolSteps
  \/ \E id \in 1..(nextId - 1), approved \in BOOLEAN : ApprovalDecision(id, approved)
  \/ \E id \in 1..(nextId - 1) : ApprovalTimeout(id)

SpecTools == InitTools /\ [][NextTools]_vars

RecentIds == { id \in 1..(nextId - 1) : id + LateWindow >= nextId }

Next ==
  \/ \E id \in RunIds, requested \in RequestedMaxSteps : AgentRun(id, requested)
  \/ \E outcome \in {"model", "none", "throws"} : SelectModel(outcome)
  \/ \E where \in {"sendRequest", "chatResponse.text"} : ModelFails(where)
  \/ \E r \in Responses : ModelResponds(r)
  \/ ExecuteReturns
  \/ ToolSteps
  \/ \E id \in RecentIds, approved \in BOOLEAN : ApprovalDecision(id, approved)
  \/ \E id \in RecentIds : ApprovalTimeout(id)

Spec == InitAgent /\ [][Next]_vars

\* ----------------------------------------------------------------- MessageBus
\* listeners are told apart by identity; the body of l2 throws
BusListenerIds == {"l1", "l2", "l3"}
Throws(l) == l = "l2"

SetAdd(set, x) == IF Includes(set, x) THEN set ELSE Append(set, x)   \* Set.add
SetDelete(set, x) == SelectSeq(set, LAMBDA y : y # x)                \* Set.delete

\* for (const l of this.xListeners) l(event): the listeners called, in order; an
\* exception thrown by one ends the loop
RECURSIVE Invoked(_)
Invoked(ls) ==
  IF ls = <<>> THEN <<>>
  ELSE IF Throws(Head(ls)) THEN << Head(ls) >>
  ELSE << Head(ls) >> \o Invoked(Tail(ls))

\* how the emit call ends for its caller
EmitOutcome(ls) == IF \E i \in 1..Len(ls) : Throws(ls[i]) THEN "threw" ELSE "returned"

\* onX(l): add, and hand out the unsubscribe handle
Subscribe(kind, l) ==
  /\ busOps < MaxBusOps
  /\ busListeners' = [busListeners EXCEPT ![kind] = SetAdd(@, l)]
  /\ busHandles' = busHandles \cup { << kind, l >> }
  /\ busOps' = busOps + 1
  /\ UNCHANGED << toolVars, runVars, routerVars, fnVars, publishes >>

\* a call of the handle onX(l) returned: delete
Unsubscribe(kind, l) ==
  /\ busOps < MaxBusOps
  /\ << kind, l >> \in busHandles
  /\ busListeners' = [busListeners EXCEPT ![kind] = SetDelete(@, l)]
  /\ busOps' = busOps + 1
  /\ UNCHANGED << toolVars, runVars, routerVars, fnVars, busHandles, publishes >>

\* emitX(event)
Emit(kind) ==
  /\ busOps < MaxBusOps
  /\ publishes' = Append(publishes,
       [kind |-> kind, registered |-> busListeners[kind],
        invoked |-> Invoked(busListeners[kind]),
        outcome |-> EmitOutcome(busListeners[kind])])
  /\ busOps' = busOps + 1
  /\ UNCHANGED << toolVars, runVars, routerVars, fnVars, busListeners, busHandles >>

InitMessageBus ==
  /\ InitEngine /\ InitRun /\ InitBus /\ NotStarted /\ NotCalled
  /\ bulk = 0
  /\ opts = [allowedRoots |-> << Star >>, requireApproval |-> FALSE, bus |-> TRUE]
  /\ batch = <<>> /\ tpc = "idle"

NextBus ==
  \/ \E kind \in BusKinds, l \in BusListenerIds : Subscribe(kind, l)
  \/ \E kind \in BusKinds, l \in BusListenerIds : Unsubscribe(kind, l)
  \/ \E kind \in BusKinds : Emit(kind)

SpecBus == InitMessageBus /\ [][NextBus]_vars

\* ------------------------------------------------------------- ExternalServer
\* undefined, and every other falsy session id (the empty string)
NoSession == ""
SessionA == "A"
SessionB == "B"
\* fragment texts are sequences of characters; '' is the empty sequence
NoText == << >>

\* one element of a session's messages
LogEntry(id, direction, fragment, done, aggregated) ==
  [id |-> id, direction |-> direction, fragment |-> fragment, done |-> done,
   aggregated |-> aggregated]
\* the data of one server-sent event
Payload(event, id, sessionId, fragment, done, approved) ==
  [event |-> event, id |-> id, sessionId |-> sessionId, fragment |-> fragment,
   done |-> done, approved |-> approved]

MapGet(map, key) == IF key \in DOMAIN map THEN map[key] ELSE NoSession   \* Map.get
MapSet(map, key, value) == (key :> value) @@ map                        \* Map.set
MapDelete(map, key) == [k \in DOMAIN map \ {key} |-> map[k]]            \* Map.delete

HasSession(sess, sid) == \E i \in 1..Len(sess) : sess[i].id = sid       \* sessions.get
\* sess.messages.push(...) for each of entries, on the session sid
PushAll_Front(log, entries) == entries \o log
PushAll(log, entries) == log \o entries
Push(sess, sid, entries) ==
  [i \in 1..Len(sess) |->
     IF sess[i].id = sid THEN [sess[i] EXCEPT !.messages = PushAll(@, entries)]
     ELSE sess[i]]
MessagesOf(sess, sid) == sess[CHOOSE i \in 1..Len(sess) : sess[i].id = sid].messages

\* pending.fragments.join(''), related.map(r => r.fragment).join('')
RECURSIVE JoinTexts(_)
JoinTexts(texts) == IF texts = << >> THEN NoText ELSE Head(texts) \o JoinTexts(Tail(texts))

\* broadcast(): whether the loop writes the payload to a client with this filter
Delivers_Unresolved(filterSession, data) ==
  filterSession = NoSession \/ data.sessionId \in {NoSession, filterSession}
Delivers(filterSession, data) ==
  IF filterSession # NoSession
  THEN LET sessionId == data.sessionId
       IN IF sessionId # NoSession /\ sessionId # filterSession THEN FALSE
          ELSE IF sessionId = NoSession THEN FALSE
          ELSE TRUE
  ELSE TRUE

\* the client.write calls of one broadcast(payload), in the order of sseClients
Writes1(data) ==
  LET hit == SelectSeq(sseClients, LAMBDA c : Delivers(clientSessionMap[c], data))
  IN [k \in 1..Len(hit) |-> [client |-> hit[k], data |-> data]]
RECURSIVE Writes(_)
Writes(payloads) ==
  IF payloads = << >> THEN << >> ELSE Writes1(Head(payloads)) \o Writes(Tail(payloads))
\* the filtered subscribers that the broadcast of a fragment with a text, but
\* without a session id (the fragment is being buffered), does not write to
PassedOver(payloads) ==
  LET buffered == { k \in 1..Len(payloads) : /\ payloads[k].event = "fragment"
                                              /\ payloads[k].fragment # NoText
                                              /\ payloads[k].sessionId = NoSession }
      skipped(k) == { c \in 1..Len(sseClients) :
                        /\ clientSessionMap[sseClients[c]] # NoSession
                        /\ ~Delivers(clientSessionMap[sseClients[c]], payloads[k]) }
  IN UNION { { [id |-> payloads[k].id, client |-> sseClients[c],
                filter |-> clientSessionMap[sseClients[c]]] : c \in skipped(k) } :
             k \in buffered }
\* what a handler's broadcast calls do; `flushed` holds the correlation ids whose
\* pending buffer the handler has appended to a log and deleted
Deliver(payloads, flushed) ==
  /\ broadcasts' = payloads
  /\ written' = Writes(payloads)
  /\ passedOver' = { u \in passedOver \cup PassedOver(payloads) : u.id \notin flushed }
  /\ inboundHandled' = inboundHandled \cup
       { payloads[k].id : k \in { q \in 1..Len(payloads) : payloads[q].event = "inbound" } }
Broadcast(payloads) == Deliver(payloads, {})

Handled == routerOps < MaxRouterOps /\ routerOps' = routerOps + 1

\* ---- bus.onInbound listener, on the sessions and index the caller leaves
\* the entries the flush of a pending buffer pushes
FlushEntries_Reversed(id, pending) ==
  [k \in 1..Len(pending.fragments) |->
     LogEntry(id, "outbound", pending.fragments[Len(pending.fragments) + 1 - k], FALSE, FALSE)]
  \o (IF pending.done /\ JoinTexts(pending.fragments) # NoText
      THEN << LogEntry(id, "outbound", JoinTexts(pending.fragments), TRUE, TRUE) >>
      ELSE << >>)
FlushEntries_AlwaysAggregates(id, pending) ==
  [k \in 1..Len(pending.fragments) |->
     LogEntry(id, "outbound", pending.fragments[k], FALSE, FALSE)]
  \o (IF JoinTexts(pending.fragments) # NoText
      THEN << LogEntry(id, "outbound", JoinTexts(pending.fragments), TRUE, TRUE) >>
      ELSE << >>)
FlushEntries(id, pending) ==
  [k \in 1..Len(pending.fragments) |->
     LogEntry(id, "outbound", pending.fragments[k], FALSE, FALSE)]
  \o (IF pending.done /\ JoinTexts(pending.fragments) # NoText
      THEN << LogEntry(id, "outbound", JoinTexts(pending.fragments), TRUE, TRUE) >>
      ELSE << >>)

OnInbound(sess, index, msg) ==
  /\ IF msg.sessionId # NoSession
     THEN LET target == IF HasSession(sess, msg.sessionId) THEN sess
                        ELSE Append(sess, [id |-> msg.sessionId, messages |-> << >>])
              inbound == << LogEntry(msg.id, "inbound", NoText, FALSE, FALSE) >>
              flush == IF msg.id \in DOMAIN pendingOutboundBuffers
                       THEN FlushEntries(msg.id, pendingOutboundBuffers[msg.id])
                       ELSE << >>
          IN /\ sessions' = Push(Push(target, msg.sessionId, inbound), msg.sessionId, flush)
             /\ messageSessionIndex' = MapSet(index, msg.id, msg.sessionId)
             /\ pendingOutboundBuffers' = MapDelete(pendingOutboundBuffers, msg.id)
     ELSE /\ sessions' = sess
          /\ messageSessionIndex' = index
          /\ UNCHANGED pendingOutboundBuffers
  /\ Deliver(<< Payload("inbound", msg.id, msg.sessionId, NoText, FALSE, FALSE) >>,
             IF msg.sessionId # NoSession THEN {msg.id} ELSE {})

\* bus.emitInbound(msg) by the chat participant or a command
BusInbound(id, sessionId) ==
  /\ Handled
  /\ OnInbound(sessions, messageSessionIndex, [id |-> id, sessionId |-> sessionId])
  /\ UNCHANGED << sseClients, clientSessionMap, approvalSessionIndex >>
  /\ UNCHANGED << toolVars, runVars, busVars, fnVars >>

\* POST /message {text, sessionId}: the handler, up to its response
PostMessage(id, sessionId) ==
  /\ Handled
  /\ LET known == sessionId # NoSession /\ HasSession(sessions, sessionId)
         sess == IF known
                 THEN Push(sessions, sessionId, << LogEntry(id, "", NoText, FALSE, FALSE) >>)
                 ELSE sessions
         index == IF known THEN MapSet(messageSessionIndex, id, sessionId)
                  ELSE messageSessionIndex
     IN OnInbound(sess, index, [id |-> id, sessionId |-> sessionId])
  /\ UNCHANGED << sseClients, clientSessionMap, approvalSessionIndex >>
  /\ UNCHANGED << toolVars, runVars, busVars, fnVars >>

\* ---- bus.onOutbound listener
\* the session the listener settles on, NoSession for none
ScanLogs(id) ==
  LET found == SelectSeq(sessions, LAMBDA s : \E k \in 1..Len(s.messages) : s.messages[k].id = id)
  IN IF found = << >> THEN NoSession ELSE found[1].id
ResolveSession(id) ==
  IF MapGet(messageSessionIndex, id) # NoSession THEN MapGet(messageSessionIndex, id)
  ELSE IF ScanLogs(id) # NoSession THEN ScanLogs(id)
  ELSE IF Len(sessions) = 1 THEN sessions[1].id
  ELSE NoSession

\* the entries pushed for a fragment whose session is known
OutboundEntries(log, frag) ==
  LET own == IF frag.fragment # NoText
             THEN << LogEntry(frag.id, "outbound", frag.fragment, frag.done, FALSE) >>
             ELSE << >>
      related == SelectSeq(log \o own, LAMBDA m :
                   m.id = frag.id /\ m.direction = "outbound" /\ m.fragment # NoText
                   /\ ~m.aggregated)
      full == JoinTexts([k \in 1..Len(related) |-> related[k].fragment])
  IN own \o (IF frag.done /\ full # NoText
             THEN << LogEntry(frag.id, "outbound", full, TRUE, TRUE) >>
             ELSE << >>)

\* the buffer entry after a fragment whose session is not known
Buffered_ForgetsDone(frag) ==
  LET buf == IF frag.id \in DOMAIN pendingOutboundBuffers
             THEN pendingOutboundBuffers[frag.id]
             ELSE [fragments |-> << >>, done |-> FALSE]
  IN [fragments |-> IF frag.fragment # NoText THEN Append(buf.fragments, frag.fragment)
                    ELSE buf.fragments,
      done |-> buf.done]
Buffered(frag) ==
  LET buf == IF frag.id \in DOMAIN pendingOutboundBuffers
             THEN pendingOutboundBuffers[frag.id]
             ELSE [fragments |-> << >>, done |-> FALSE]
  IN [fragments |-> IF frag.fragment # NoText THEN Append(buf.fragments, frag.fragment)
                    ELSE buf.fragments,
      done |-> buf.done \/ frag.done]

\* bus.emitOutbound(frag) by the proxy or the agent run
BusOutbound(id, text, done) ==
  /\ Handled
  /\ LET frag == [id |-> id, fragment |-> text, done |-> done]
         sessionId == ResolveSession(id)
     IN /\ IF sessionId = NoSession
           THEN /\ pendingOutboundBuffers' = MapSet(pendingOutboundBuffers, id, Buffered(frag))
                /\ UNCHANGED << sessions, messageSessionIndex >>
           ELSE /\ messageSessionIndex' = MapSet(messageSessionIndex, id, sessionId)
                /\ sessions' = IF HasSession(sessions, sessionId)
                               THEN Push(sessions, sessionId,
                                         OutboundEntries(MessagesOf(sessions, sessionId), frag))
                               ELSE sessions
                /\ UNCHANGED pendingOutboundBuffers
        /\ Broadcast(<< Payload("fragment", id, sessionId, text, done, FALSE) >>
                     \o (IF done THEN << Payload("done", id, sessionId, NoText, FALSE, FALSE) >>
                         ELSE << >>))
  /\ UNCHANGED << sseClients, clientSessionMap, approvalSessionIndex >>
  /\ UNCHANGED << toolVars, runVars, busVars, fnVars >>

\* ---- approval listeners
\* bus.emitApprovalRequest(req) by AgentTools.requestApproval; approval ids are unique
OnApprovalRequest(approvalId, correlationId) ==
  /\ Handled
  /\ approvalId \notin DOMAIN approvalSessionIndex
  /\ LET sessionId == MapGet(messageSessionIndex, correlationId)
     IN /\ approvalSessionIndex' = MapSet(approvalSessionIndex, approvalId, sessionId)
        /\ Broadcast(<< Payload("approvalRequest", approvalId, sessionId, NoText, FALSE, FALSE) >>)
  /\ UNCHANGED << sessions, sseClients, clientSessionMap, messageSessionIndex,
                  pendingOutboundBuffers >>
  /\ UNCHANGED << toolVars, runVars, busVars, fnVars >>

\* the payload the onApprovalDecision listener broadcasts
DecisionPayload(approvalId, approved) ==
  Payload("approvalDecision", approvalId, MapGet(approvalSessionIndex, approvalId),
          NoText, FALSE, approved)

\* bus.emitApprovalDecision(dec) by the chat participant's approval command
OnApprovalDecision(approvalId, approved) ==
  /\ Handled
  /\ Broadcast(<< DecisionPayload(approvalId, approved) >>)
  /\ UNCHANGED << sessions, sseClients, clientSessionMap, messageSessionIndex,
                  pendingOutboundBuffers, approvalSessionIndex >>
  /\ UNCHANGED << toolVars, runVars, busVars, fnVars >>

\* POST /approval {approvalId, approved}: emitApprovalDecision (the listener above
\* runs), then the handler's own broadcast of {approvalId, approved}
PostApproval(approvalId, approved) ==
  /\ Handled
  /\ Broadcast(<< DecisionPayload(approvalId, approved),
                  Payload("approvalDecision", approvalId, NoSession, NoText, FALSE, approved) >>)
  /\ UNCHANGED << sessions, sseClients, clientSessionMap, messageSessionIndex,
                  pendingOutboundBuffers, approvalSessionIndex >>
  /\ UNCHANGED << toolVars, runVars, busVars, fnVars >>

\* ---- subscribers
\* GET /events?session=filter on a new connection
GetEvents(client, sessionFilter) ==
  /\ Handled
  /\ client \notin DOMAIN clientSessionMap
  /\ sseClients' = SetAdd(sseClients, client)
  /\ clientSessionMap' = MapSet(clientSessionMap, client, sessionFilter)
  /\ Broadcast(<< >>)
  /\ UNCHANGED << sessions, messageSessionIndex, pendingOutboundBuffers, approvalSessionIndex >>
  /\ UNCHANGED << toolVars, runVars, busVars, fnVars >>

\* req.on('close')
CloseEvents(client) ==
  /\ Handled
  /\ Includes(sseClients, client)
  /\ sseClients' = SetDelete(sseClients, client)
  /\ Broadcast(<< >>)
  /\ UNCHANGED << sessions, clientSessionMap, messageSessionIndex, pendingOutboundBuffers,
                  approvalSessionIndex >>
  /\ UNCHANGED << toolVars, runVars, busVars, fnVars >>

\* ---- the server after start(): one session per workspace folder, persistence off
Session(id) == [id |-> id, messages |-> << >>]
InitRouter ==
  /\ InitEngine /\ InitRun /\ InitBus /\ InitServer /\ NotCalled
  /\ bulk = 0
  /\ opts = [allowedRoots |-> << Star >>, requireApproval |-> FALSE, bus |-> TRUE]
  /\ batch = <<>> /\ tpc = "idle"
  /\ sessions \in { << Session(SessionA) >>, << Session(SessionA), Session(SessionB) >> }

MessageIds == {"m1", "m2"}
Texts == { << "x" >>, << "y" >>, NoText }

\* the session registry, the correlation index and the pending buffers
NextRouter ==
  \/ \E sid \in {NoSession, SessionA, SessionB} : PostMessage("m1", sid)
  \/ \E id \in MessageIds, sid \in {NoSession, SessionA, SessionB} : BusInbound(id, sid)
  \/ \E text \in Texts, done \in BOOLEAN : BusOutbound("m1", text, done)
  \/ BusOutbound("m2", << "z" >>, FALSE)
  \/ \E cid \in {"m1", "N/A"} : OnApprovalRequest("a1", cid)
  \/ OnApprovalDecision("a1", TRUE)

SpecRouter == InitRouter /\ [][NextRouter]_vars

\* the fan-out to subscribers, on the two-folder workspace
ClientIds == {"c1", "c2"}
InitFanout == InitRouter /\ Len(sessions) = 2
NextFanout ==
  \/ \E c \in ClientIds, f \in {NoSession, SessionA, SessionB} : GetEvents(c, f)
  \/ \E c \in ClientIds : CloseEvents(c)
  \/ PostMessage("m1", SessionA)
  \/ BusInbound("m2", NoSession)
  \/ \E id \in MessageIds : BusOutbound(id, << "x" >>, id = "m2")
  \/ \E cid \in {"m1", "N/A"} : OnApprovalRequest("a1", cid)
  \/ \E id \in {"a1", "a2"} : OnApprovalDecision(id, TRUE)
  \/ PostApproval("a1", FALSE)

SpecFanout == InitFanout /\ [][NextFanout]_vars

\* ====================================================================== claims
DoneCount(out) == Cardinality({ i \in 1..Len(out) : out[i].done })
Terminated == pc \in {"returned", "threw"}
EndsWithDone == DoneCount(outbound) = 1 /\ Last(outbound).done

\* C1: once a run has terminated, its fragment sequence holds exactly one
\* done=true fragment, and that fragment is the last one the run emitted.
C1_OneDoneFragmentLast == Terminated => EndsWithDone

\* C2: a provider failure (no model available, the request or the response
\* stream failing) ends the run with one done=true fragment; run() never ends
\* by rejecting with the raw exception.
ProviderFailed ==
  \/ exception # ""
  \/ outbound # <<>> /\ Last(outbound).fragment = "No chat model available for agent."
C2_ProviderFailureReported ==
  /\ pc # "threw"
  /\ ProviderFailed => pc = "returned" /\ EndsWithDone

\* ---- C3
RECURSIVE TrailingEmpties(_)
TrailingEmpties(c) ==
  IF c = <<>> \/ Last(c) # "empty" THEN 0
  ELSE 1 + TrailingEmpties(SubSeq(c, 1, Len(c) - 1))
Aborted ==
  /\ pc = "returned"
  /\ EndsWithDone
  /\ Last(outbound).fragment = "Agent produced empty actions repeatedly. Aborting."
\* no model request follows n empty action lists in a row
NoCallAfterEmpties(n) ==
  \A i \in 1..Len(calls) :
    (i >= n /\ \A k \in (i - n + 1)..i : calls[k] = "empty") => i = Len(calls)
NonEmptyResets ==
  (calls # <<>> /\ Last(calls) = "batch") => emptyActionRetries = 0

C9_MaxStepsCeiling ==
  /\ executeCount = 0 \/ executeCount <= runOpts.maxSteps
  /\ (pc # "idle" /\ step >= runOpts.maxSteps) =>
        /\ pc = "returned"
        /\ EndsWithDone
        /\ Last(outbound).fragment = "Agent reached max steps"
C9_Witness ==
  /\ pc = "returned" /\ runOpts.maxSteps = 2 /\ step = 2 /\ executeCount = 2
  /\ Last(outbound).fragment = "Agent reached max steps"

\* C10: when the parsed object signals completion, the run publishes exactly one
\* final-summary fragment, with done=true, executes no tool action in that step
\* and makes no further model request.
SummaryTexts == {"sum", "Agent finished."}
C10_DoneStepFinishes ==
  \A i \in 1..Len(calls) : calls[i] = "done" =>
    /\ i = Len(calls)
    /\ pc = "returned" /\ tpc = "idle"
    /\ EndsWithDone /\ Last(outbound).fragment \in SummaryTexts
    /\ Cardinality({ k \in 1..Len(outbound) : outbound[k].fragment \in SummaryTexts }) = 1
    /\ executeCount = Cardinality({ k \in 1..Len(calls) : calls[k] = "batch" })
C10_Witness ==
  /\ calls # <<>> /\ Last(calls) = "done" /\ executeCount = 1
  /\ rawJson[1].actions # <<>> /\ pc = "returned"

\* ---- claims about execute()
ResultTool(a) == IF a.tool = "" THEN "unknown" ELSE a.tool
WritesOf(i) == { k \in 1..Len(ioLog) : ioLog[k].act = i /\ ioLog[k].op = "write" }
PathBearing == {"createFile", "editFile", "readFiles"}

\* C4: with approval required, a createFile or editFile write happens only after
\* an ApprovalRequest for that action was emitted and a decision approved=true
\* for its approvalId was received, whatever the engine's configuration.
C4_WriteOnlyAfterApproval ==
  opts.requireApproval =>
    \A k \in 1..Len(ioLog) : ioLog[k].op = "write" =>
      \E q \in 1..Len(approvalRequests) :
        /\ approvalRequests[q].path = ioLog[k].rel
        /\ approvalRequests[q].action = ioLog[k].tool
        /\ [approvalId |-> approvalRequests[q].approvalId, approved |-> TRUE] \in decisions

\* C5: every approvalId is resolved at most once; the promise keeps the value of
\* the first resolution, the action that waited for it ends with the outcome of
\* that resolution, and it writes at most once, whatever decisions and timer
\* expiry come later.
C5_ResolvedOnce ==
  \A id \in DOMAIN promise :
    /\ Len(resolutions[id]) <= 1
    /\ (promise[id] = "pending") <=> (resolutions[id] = <<>>)
    /\ resolutions[id] = << TRUE >> => promise[id] = "approved"
    /\ resolutions[id] = << FALSE >> => promise[id] = "rejected"
    /\ (id \in pendingApprovals) => promise[id] = "pending"
    /\ Cardinality(WritesOf(requester[id])) <= 1
    /\ (opts.bus /\ requester[id] < ai) =>
         /\ results[requester[id]].success <=> resolutions[id] = << TRUE >>
         /\ results[requester[id]].success <=> WritesOf(requester[id]) # {}
C5_Witness ==
  \E id \in DOMAIN promise :
    /\ resolutions[id] = << TRUE >>
    /\ [approvalId |-> id, approved |-> FALSE] \in decisions
    /\ timers[id] = "fired"
    /\ requester[id] < ai /\ results[requester[id]].success
    /\ files[Join(batch[requester[id]].path)] = Utf8Encode(batch[requester[id]].content)

\* C6: execute returns exactly one result per input action, the i-th result
\* being the outcome of the i-th action, whatever the kinds and the failures.
C6_OneResultPerAction ==
  /\ Len(results) = ai - 1
  /\ tpc = "returned" => Len(results) = Len(batch)
  /\ \A i \in 1..Len(results) :
       /\ results[i].tool = ResultTool(batch[i])
       /\ (results[i].success /\ batch[i].tool \in {"createFile", "editFile"})
            => results[i].detail.path = batch[i].path
       /\ (batch[i].tool \in {"createFile", "editFile"})
            => (results[i].error = "Not allowed" <=> ~isAllowed(batch[i].path))
       /\ results[i].error = "Unknown tool" <=>
            batch[i].tool \notin (PathBearing \cup {"listFiles", "runCommand"})
C6_Witness ==
  /\ tpc = "returned" /\ Len(batch) = MaxBatch /\ Len(results) = MaxBatch
  /\ batch[1].tool = "bogus" /\ ~results[1].success
  /\ batch[2].tool = "editFile" /\ ~results[2].success

\* C7: a createFile, editFile or readFiles path that fails the allow-list check
\* gets the outcome "Not allowed", and no file-system call (exists, read, mkdir,
\* write) and no ApprovalRequest is ever made for it.
C7_NotAllowedNoSideEffect ==
  /\ \A k \in 1..Len(ioLog) :
       ioLog[k].tool \in PathBearing => isAllowed(ioLog[k].rel)
  /\ \A q \in 1..Len(approvalRequests) : isAllowed(approvalRequests[q].path)
  /\ \A i \in 1..Len(results) :
       /\ (batch[i].tool \in {"createFile", "editFile"} /\ ~isAllowed(batch[i].path))
            => results[i] = Failure(batch[i].tool, "Not allowed")
       /\ (batch[i].tool = "readFiles" /\ results[i].success) =>
            \A n \in 1..Len(batch[i].files) :
              ~isAllowed(batch[i].files[n]) =>
                results[i].detail.read[n] =
                  [path |-> batch[i].files[n], content |-> NoContent, error |-> "Not allowed"]
  /\ (\A i \in 1..Len(batch) : batch[i].tool \in PathBearing /\
         (batch[i].tool # "readFiles" => ~isAllowed(batch[i].path)) /\
         (\A n \in 1..Len(batch[i].files) : ~isAllowed(batch[i].files[n])))
       => (files = InitialFiles /\ dirs = InitialDirs /\ ioLog = <<>>)
C7_Witness ==
  /\ tpc = "returned" /\ opts.requireApproval /\ opts.bus /\ Len(batch) = 2
  /\ batch[1] = CreateFileAction(P_ex, TextOne) /\ results[1].error = "Not allowed"
  /\ batch[2].tool = "readFiles" /\ results[2].detail.read[1].error = "Not allowed"

\* C8: a failing action affects only its own result: every later action of the
\* batch is still executed, with its side effects, and reports its own outcome.
C8_FailureIsPerAction ==
  tpc = "returned" =>
    \A i \in 1..Len(batch) : \A j \in (i + 1)..Len(batch) :
      (i <= Len(results) /\ ~results[i].success) =>
        /\ j <= Len(results) /\ results[j].tool = ResultTool(batch[j])
        /\ (results[j].success /\ batch[j].tool \in {"createFile", "editFile"}) =>
             /\ Join(batch[j].path) \in DOMAIN files
             /\ WritesOf(j) # {}
        /\ (batch[j].tool = "runCommand" /\ ~opts.requireApproval
              /\ (batch[j].cwd = NoPath \/ isAllowed(batch[j].cwd))) =>
             /\ results[j].success
             /\ \E k \in 1..Len(ioLog) : ioLog[k].act = j /\ ioLog[k].op = "exec"
        /\ (batch[j] = EditFileAction(P_sa, TextTwo) /\ isAllowed(P_sa)
              /\ ~opts.requireApproval) =>
             results[j].success /\ files[Join(P_sa)] = Utf8Encode(TextTwo)
        /\ (batch[j].tool = "readFiles") => results[j].success
C8_Witness ==
  /\ tpc = "returned" /\ Len(batch) = 2
  /\ batch[1] = EditFileAction(P_ex, TextTwo) /\ results[1].error = "Not allowed"
  /\ batch[2] = CreateFileAction(P_sdn, TextOne) /\ results[2].success
  /\ files[Join(P_sdn)] = Utf8Encode(TextOne) /\ Join(P_sdn) \notin DOMAIN InitialFiles

\* ---- C11
UserRejected == {"User rejected create", "User rejected edit"}
\* the approval the suspended action waits for was resolved as not approved
NotGranted == awaiting.kind = "promise" /\ promise[awaiting.id] = "rejected"
Suspended == tpc = "awaitApproval"

\* C11: from the moment a createFile or editFile asks for approval until it ends,
\* files, their contents and the directories stay as they were unless the
\* approval is granted; when the approval is not granted (explicit rejection or
\* timeout) the action ends with a "User rejected" failure and makes no
\* file-system call.
C11_RejectionLeavesFilesAlone ==
  [][ /\ (tpc = "next" /\ Suspended') => (files' = files /\ dirs' = dirs)
      /\ (Suspended /\ Suspended') => (files' = files /\ dirs' = dirs)
      /\ (Suspended /\ ~Suspended' /\ NotGranted) =>
           /\ files' = files /\ dirs' = dirs /\ ioLog' = ioLog
           /\ Len(results') = Len(results) + 1
           /\ Last(results') = Failure(batch[ai].tool, Last(results').error)
           /\ Last(results').error \in UserRejected ]_vars
\* a create rejected by an explicit decision and an edit rejected by the timeout
C11_Witness ==
  /\ tpc = "returned" /\ Len(batch) = 2
  /\ batch[1] = CreateFileAction(P_sdn, TextOne) /\ batch[2] = EditFileAction(P_sa, TextTwo)
  /\ results[1].error = "User rejected create" /\ results[2].error = "User rejected edit"
  /\ resolutions = (1 :> << FALSE >>) @@ (2 :> << FALSE >>)
  /\ timers[1] = "armed" /\ [approvalId |-> 1, approved |-> FALSE] \in decisions
  /\ timers[2] = "fired" /\ \A d \in decisions : d.approvalId # 2
  /\ files = InitialFiles /\ dirs = InitialDirs

\* ---- C12
\* batches of createFile / editFile actions on an engine that requires approval
WriteActions ==
  { CreateFileAction(P_sdn, TextOne), EditFileAction(P_sa, TextTwo),
    EditFileAction(P_ex, TextTwo) }
InitApproval ==
  /\ InitEngine /\ InitRun /\ InitBus /\ NotStarted /\ NotCalled
  /\ bulk = 0
  /\ opts \in { o \in OptsChoices : o.requireApproval /\ o.allowedRoots = << P_s >> }
  /\ batch \in SeqsUpTo(WriteActions, MaxBatch)
  /\ tpc = IF batch = <<>> THEN "returned" ELSE "next"

\* decisions come for approvals that are still pending: for any other id the
\* listener finds no entry and the engine is left as it is
NextApproval ==
  \/ ExecWriteBegin
  \/ ExecWriteResume
  \/ \E id \in pendingApprovals, approved \in BOOLEAN : ApprovalDecision(id, approved)
  \/ \E id \in 1..(nextId - 1) : ApprovalTimeout(id)

\* the event loop runs what is ready: execute() goes on after a settled promise
\* and an armed setTimeout fires; decisions are the environment's and need not come
FairApproval ==
  WF_vars(ExecWriteBegin \/ ExecWriteResume \/ \E id \in 1..MaxBatch : ApprovalTimeout(id))
SpecApproval == InitApproval /\ [][NextApproval]_vars /\ FairApproval

TimedOut(id) == timers[id] = "fired" /\ \A d \in decisions : d.approvalId # id

RejectedByTimeout(i) ==
  \E id \in DOMAIN requester :
    /\ requester[id] = i /\ opts.bus /\ i < ai
    /\ resolutions[id] = << FALSE >> /\ TimedOut(id)
RejectedByDecision(i) ==
  \E id \in DOMAIN requester :
    /\ requester[id] = i /\ opts.bus /\ i < ai
    /\ resolutions[id] = << FALSE >> /\ timers[id] = "armed"
    /\ [approvalId |-> id, approved |-> FALSE] \in decisions

\* C13: the result of an action whose approval timed out differs from the
\* result of the same action rejected by an explicit decision.
C13_TimeoutDistinguishable ==
  \A i, j \in 1..Len(results) :
    (batch[i] = batch[j] /\ RejectedByTimeout(i) /\ RejectedByDecision(j))
      => results[i] # results[j]

\* ---- C14
\* the step is one the engine takes on the action at ai
StepOfAction == ai' # ai \/ tpc' # tpc
\* the step ends the action at ai with the failure `error` and nothing else
FailsWith(error) ==
  /\ results' = Append(results, Failure("createFile", error))
  /\ approvalRequests' = approvalRequests /\ pendingApprovals' = pendingApprovals
  /\ files' = files /\ dirs' = dirs
CreateOnExisting ==
  tpc = "next" /\ batch[ai].tool = "createFile" /\ Exists(Join(batch[ai].path))

\* C14 as stated: a createFile whose target exists fails with "File exists", emits
\* no ApprovalRequest and leaves the file system as it is.
C14_ExistingTargetFails ==
  [][ (CreateOnExisting /\ StepOfAction) => FailsWith("File exists") ]_vars

\* C14 amended: a createFile on an allowed path whose target exists fails with
\* "File exists"; on a path outside the allowed roots it fails with "Not allowed"
\* whether the target exists or not; either way no ApprovalRequest is emitted and
\* the file system stays as it is.
C14_AllowedExistingTargetFails ==
  [][ (CreateOnExisting /\ StepOfAction) =>
        IF isAllowed(batch[ai].path) THEN FailsWith("File exists")
        ELSE FailsWith("Not allowed") ]_vars
\* the second of two creates of one path found the file the first one wrote
C14_Witness ==
  /\ tpc = "returned" /\ opts.requireApproval /\ opts.bus
  /\ batch = << CreateFileAction(P_sdn, TextOne), CreateFileAction(P_sdn, TextLone) >>
  /\ results[1].success /\ results[2] = Failure("createFile", "File exists")
  /\ files[Join(P_sdn)] = Utf8Encode(TextOne) /\ Len(approvalRequests) = 1

\* ---- C15
\* a string with no unpaired surrogate
RECURSIVE WellFormed(_)
WellFormed(c) ==
  IF c = <<>> THEN TRUE
  ELSE IF c[1] = "H" THEN Len(c) >= 2 /\ c[2] = "L" /\ WellFormed(SubSeq(c, 3, Len(c)))
  ELSE c[1] # "L" /\ WellFormed(Tail(c))

\* a successful createFile at index i directly followed by a readFiles that is
\* over, and n an entry of that readFiles for the path just created
CreateThenRead(i, n) ==
  /\ i + 1 <= Len(results)
  /\ batch[i].tool = "createFile" /\ results[i].success
  /\ batch[i + 1].tool = "readFiles" /\ results[i + 1].success
  /\ n \in 1..Len(batch[i + 1].files) /\ batch[i + 1].files[n] = batch[i].path
ReadBack(i, n) == results[i + 1].detail.read[n]

\* C15 as stated: a successful createFile(p, c) followed by readFiles([p]) returns
\* for p the content exactly c, for every content c.
C15_CreateReadRoundTrip ==
  \A i \in 1..Len(results) : \A n \in 1..4 :
    CreateThenRead(i, n) =>
      ReadBack(i, n) = [path |-> batch[i].path, content |-> batch[i].content, error |-> ""]

\* C15 amended: the content read back is exactly c when c holds no unpaired
\* surrogate; a c that holds one is read back as a different, well-formed string
\* of the same length (each unpaired surrogate replaced by U+FFFD).
C15_WellFormedRoundTrip ==
  \A i \in 1..Len(results) : \A n \in 1..4 :
    CreateThenRead(i, n) =>
      LET c == batch[i].content
          back == ReadBack(i, n)
      IN /\ back.path = batch[i].path /\ back.error = ""
         /\ WellFormed(c) => back.content = c
         /\ ~WellFormed(c) =>
              /\ back.content # c /\ WellFormed(back.content)
              /\ Len(back.content) = Len(c)
              /\ \A k \in 1..Len(c) : back.content[k] \in {c[k], "FFFD"}
\* a content with a surrogate pair came back as written, through an approval
C15_Witness ==
  /\ CreateThenRead(1, 4) /\ opts.requireApproval /\ opts.bus
  /\ batch[1].content = TextOne /\ ReadBack(1, 4).content = TextOne
  /\ files[Join(P_sdn)] = << "a", "HL" >>

\* ---- C16
\* the step ends an editFile of an existing file at an allowed path that carries
\* a content, and the approval (where one was asked for) was not refused
EditEnds ==
  /\ tpc \in {"next", "awaitApproval"} /\ ai' = ai + 1
  /\ batch[ai].tool = "editFile" /\ batch[ai].content # NoContent
  /\ isAllowed(batch[ai].path) /\ Join(batch[ai].path) \in DOMAIN files
  /\ ~NotGranted

\* C16: an approved editFile(path, c) of an existing file at an allowed path
\* succeeds and leaves the file's content exactly c, the empty string included.
C16_EditOverwrites ==
  [][ EditEnds =>
        /\ Last(results').success
        /\ Utf8Decode(files'[Join(batch[ai].path)]) = batch[ai].content ]_vars

\* ---- C17
\* C17: every command is executed in a working directory inside the allowed
\* roots, whether cwd was given or defaulted; a runCommand whose working
\* directory is not inside them is rejected and executes nothing.
C17_CommandCwdAllowed ==
  /\ \A k \in 1..Len(ioLog) : ioLog[k].op = "exec" => isAllowed(ioLog[k].rel)
  /\ \A i \in 1..Len(results) :
       (batch[i].tool = "runCommand" /\ ~isAllowed(batch[i].cwd)) =>
         /\ ~results[i].success
         /\ \A k \in 1..Len(ioLog) : ioLog[k].act = i => ioLog[k].op # "exec"

\* ---- C18
\* listFiles calls with max absent (0), negative, small and above the ceiling, on
\* workspaces with fewer and with more files than the default cap and the ceiling
ListActions == { ListFilesAction(m) : m \in {-1, 0, 3, 600} }
BulkChoices == {0, 198, 501}
InitList ==
  /\ InitEngine /\ InitRun /\ InitBus /\ NotStarted /\ NotCalled
  /\ opts \in OptsChoices
  /\ bulk \in BulkChoices
  /\ batch \in SeqsUpTo(ListActions, MaxBatch)
  /\ tpc = IF batch = <<>> THEN "returned" ELSE "next"
NextList == ExecListFiles
SpecList == InitList /\ [][NextList]_vars

ListedCount(r) == Cardinality(r.detail.listed) + r.detail.listedBulk

C19_ListenerExceptionIsolated ==
  \A n \in 1..Len(publishes) :
    LET p == publishes[n] IN
    (\E i \in 1..Len(p.registered) : Throws(p.registered[i])) =>
      /\ p.outcome = "returned"
      /\ \A i \in 1..Len(p.registered) :
           ~Throws(p.registered[i]) => Includes(p.invoked, p.registered[i])

\* ---- C20
\* the events of a kind listener l was called with, in the order of the calls
RECURSIVE ReceivedBy(_, _, _)
ReceivedBy(l, kind, n) ==
  IF n = 0 THEN <<>>
  ELSE ReceivedBy(l, kind, n - 1) \o
       (IF publishes[n].kind = kind /\ Includes(publishes[n].invoked, l)
        THEN << n >> ELSE <<>>)
TimesInvoked(p, l) == Cardinality({ i \in 1..Len(p.invoked) : p.invoked[i] = l })

\* C20: each emit calls every listener registered for the kind at that time
\* exactly once before it returns, and no other listener (not one unsubscribed
\* before, not one subscribed later); a listener gets the events of a kind in
\* the order they were published.
C20_DeliveredOncePerListener ==
  /\ \A n \in 1..Len(publishes) : \A l \in BusListenerIds :
       TimesInvoked(publishes[n], l) =
         (IF Includes(publishes[n].registered, l) THEN 1 ELSE 0)
  /\ \A l \in BusListenerIds : \A kind \in BusKinds :
       LET got == ReceivedBy(l, kind, Len(publishes)) IN
       \A i \in 1..Len(got) : \A j \in 1..Len(got) : i < j => got[i] < got[j]


\* ---- C24
\* the step in which a model response comes back with no candidate that parses
ParseFails == pc = "request" /\ calls' = Append(calls, "unparsed")
\* the fragments a step publishes
Published == SubSeq(outbound', Len(outbound) + 1, Len(outbound'))

\* C24: when no candidate of a model response parses, the run publishes one
\* non-final diagnostic fragment, appends the corrective instruction to the history
\* and redoes the same step index; the step index counts executed batches only, so
\* the retry leaves the number of batches still allowed by maxSteps as it was.
C24_ParseFailureRedoesStep ==
  /\ [][ ParseFails =>
           /\ Published = << Fragment(runOpts.id, "parseNote", FALSE, ModelName) >>
                            \o (IF step > 0
                                THEN << Fragment(runOpts.id, "spacer", FALSE, "agent") >>
                                ELSE << >>)
           /\ history' = history \o << Message("assistant", "full", <<>>),
                                        Message("user", "retryMsg", <<>>) >>
           /\ step' = step /\ runOpts' = runOpts
           /\ executeCount' = executeCount
           /\ pc' = "select" ]_vars
  /\ [](pc \in {"select", "request", "executing"} =>
          executeCount = step + (IF pc = "executing" THEN 1 ELSE 0))
\* a retry after the first batch, and the second batch of maxSteps = 2 still ran
C24_Witness ==
  /\ calls = << "batch", "unparsed", "batch" >>
  /\ runOpts.maxSteps = 2 /\ executeCount = 2 /\ pc = "executing"


\* ---- C25
\* the action at ai is under way: started, and not yet finished
ActionUnderWay == pc = "executing" /\ tpc \in {"next", "awaitApproval"}
\* the approval wait of the action at ai is not over
WaitingForDecision ==
  /\ pc = "executing" /\ tpc = "awaitApproval"
  /\ awaiting.kind = "promise" /\ promise[awaiting.id] = "pending"
NewIo == SubSeq(ioLog', Len(ioLog) + 1, Len(ioLog'))
NewRequests == SubSeq(approvalRequests', Len(approvalRequests) + 1, Len(approvalRequests'))

\* C25: within one run the actions of a batch execute one after another in list
\* order: the action at index i is worked on only when the i - 1 actions before it
\* have their results, every file-system call, approval request and result of a
\* step belongs to that one action, nothing happens for the batch while its
\* approval wait lasts, and the run goes on to the next model call only when the
\* whole batch has its results.
C25_SequentialExecution ==
  /\ [](ActionUnderWay => ai \in 1..Len(batch) /\ Len(results) = ai - 1)
  /\ [][ pc = "executing" =>
           /\ \A k \in 1..Len(NewIo) : NewIo[k].act = ai
           /\ \A k \in 1..Len(NewRequests) : requester'[NewRequests[k].approvalId] = ai
           /\ results' # results =>
                /\ Len(results') = ai /\ SubSeq(results', 1, ai - 1) = results
                /\ ai' = ai + 1
           /\ (files' # files \/ dirs' # dirs) =>
                /\ tpc = "awaitApproval" /\ Len(results') = ai
                /\ DOMAIN files' \ DOMAIN files \subseteq { Join(batch[ai].path) }
                /\ \A f \in DOMAIN files : files'[f] # files[f] => f = Join(batch[ai].path) ]_vars
  /\ [][ WaitingForDecision =>
           UNCHANGED << results, ai, ioLog, files, dirs, approvalRequests, calls,
                        history, outbound, pc >> ]_vars
  /\ [][ (pc = "executing" /\ pc' # "executing") =>
           /\ tpc = "returned" /\ Len(results) = Len(batch) ]_vars
  /\ [](pc \in {"select", "request"} => tpc = "idle")
  /\ [][ calls' # calls => pc = "request" /\ ~ActionUnderWay ]_vars
\* a createFile that waited for its approval, then the read of the same file
\* that finds it with the content written, then the next model call
C25_Witness ==
  /\ pc = "request" /\ executeCount = 1 /\ Len(results) = 3
  /\ batch = PlanA /\ opts.bus /\ opts.requireApproval
  /\ requester[1] = 2 /\ promise[1] = "approved" /\ results[2].success
  /\ results[3].detail.read[3].content = TextOne


\* ---- C26
\* the step in which a parsed response with a batch is taken up, and the step in
\* which the batch is over and the rest of the loop body runs
BatchBegins == pc = "request" /\ pc' = "executing"
BatchEnds == pc = "executing" /\ pc' # "executing"
Say(text) == Fragment(runOpts.id, text, FALSE, ModelName)
\* what follows a step's fragments: the head of the next step, or the end of the run
AfterStep ==
  IF pc' = "select" THEN << Fragment(runOpts.id, "spacer", FALSE, "agent") >>
  ELSE << Fragment(runOpts.id, "Agent reached max steps", TRUE, "") >>
\* the actions-taken and results fragments published so far
Summaries == SelectSeq(outbound, LAMBDA f : f.fragment \in {"actionSummary", "results"})
SummariesAlternate ==
  \A k \in 1..Len(Summaries) :
    Summaries[k].fragment = IF k % 2 = 1 THEN "actionSummary" ELSE "results"

\* C26 as stated: for each executed step the run publishes the commentary
\* fragment, then the actions-taken fragment, then after execution the results
\* fragment, and all of them before any fragment of the next step.
C26_CommentaryActionsResults ==
  /\ [][ BatchBegins => Published = << Say("commentary"), Say("actionSummary") >> ]_vars
  /\ [][ (pc = "executing" /\ pc' = "executing") => outbound' = outbound ]_vars
  /\ [][ BatchEnds =>
           Published = (RunLines(results, runOpts.id) \o << Say("results") >>) \o AfterStep ]_vars
  /\ []SummariesAlternate

\* C26 amended: the commentary fragment is published only when the response
\* carries a non-empty commentary; with or without it the actions-taken fragment
\* comes next, then after execution the [run] lines and the results fragment, and
\* all of them before any fragment of the next step.
C26_StepFragmentsInOrder ==
  /\ [][ BatchBegins =>
           Published = (IF rawJson'[1].commentary # "" THEN << Say("commentary") >>
                        ELSE << >>) \o << Say("actionSummary") >> ]_vars
  /\ [][ (pc = "executing" /\ pc' = "executing") => outbound' = outbound ]_vars
  /\ [][ BatchEnds =>
           Published = (RunLines(results, runOpts.id) \o << Say("results") >>) \o AfterStep ]_vars
  /\ []SummariesAlternate
\* an executed step with a commentary: its three fragments, then the next step's
C26_Witness ==
  /\ Len(outbound) >= 4 /\ executeCount = 1
  /\ SubSeq(outbound, 1, 4) = << Say("commentary"), Say("actionSummary"), Say("results"),
                                 Fragment(runOpts.id, "spacer", FALSE, "agent") >>


\* ---- C27
IsPrefix(s, t) == Len(s) <= Len(t) /\ SubSeq(t, 1, Len(s)) = s
\* the (assistant output, feedback) pair the k-th iteration of the run left
PairOf(k) == << history[2 * k + 1], history[2 * k + 2] >>
PairMatches(k) ==
  LET out == PairOf(k)[1]
      feedback == PairOf(k)[2]
  IN /\ out.role = "assistant" /\ feedback.role = "user"
     /\ CASE calls[k] = "unparsed" -> out.text = "full" /\ feedback.text = "retryMsg"
          [] calls[k] = "empty" ->
               /\ out.text = "rawJson" /\ out.payload[1].actions = << >>
               /\ feedback.text = "correction"
          [] calls[k] = "batch" ->
               /\ out.text = "rawJson" /\ feedback.text = "TOOL_RESULTS"
               /\ Len(feedback.payload) = Len(out.payload[1].actions)
               /\ \A i \in 1..Len(feedback.payload) :
                    feedback.payload[i].tool = out.payload[1].actions[i].tool
          [] OTHER -> FALSE

\* C27: at every model call the history is the protocol instructions, the goal,
\* then one (assistant output, feedback) pair per earlier iteration in iteration
\* order; the history only grows by appending; and the feedback of an executed
\* step is the result list of the whole batch, failed actions included.
C27_HistoryComposition ==
  /\ [](pc = "request" =>
          /\ Len(history) = 2 + 2 * Len(calls)
          /\ history[1] = Message("system", "SYSTEM_PROMPT", <<>>)
          /\ history[2] = Message("user", "goal", <<>>)
          /\ \A k \in 1..Len(calls) : PairMatches(k))
  /\ [][ pc # "idle" => IsPrefix(history, history') ]_vars
  /\ [][ BatchEnds =>
           /\ Len(results) = Len(batch)
           /\ history' = history \o << Message("assistant", "rawJson", rawJson),
                                        Message("user", "TOOL_RESULTS", results) >> ]_vars
\* the third model call of a run, after a retry and a batch in which one action
\* failed and one succeeded
C27_Witness ==
  /\ pc = "request" /\ calls = << "empty", "batch" >>
  /\ ~history[6].payload[1].success /\ history[6].payload[3].success
  /\ Len(history[6].payload) = 3


\* ---- C21
Subscribers == { sseClients[i] : i \in 1..Len(sseClients) }
\* the last handler wrote payload p to client c
Got(c, p) == \E w \in 1..Len(written') : written'[w] = [client |-> c, data |-> p]

\* C21: an event is written to a subscriber registered with session filter F only
\* if the session id the event carries equals F; an event that carries no session
\* id is written to no filtered subscriber and to every subscriber without a
\* filter; nothing is written to anyone else.
C21_FilteredFanOut ==
  [][ /\ \A k \in 1..Len(broadcasts') : \A c \in Subscribers :
           LET p == broadcasts'[k]
               F == clientSessionMap[c]
           IN /\ (F # NoSession /\ Got(c, p)) => p.sessionId = F
              /\ p.sessionId = NoSession => (Got(c, p) <=> F = NoSession)
      /\ \A w \in 1..Len(written') :
           /\ written'[w].client \in Subscribers
           /\ \E k \in 1..Len(broadcasts') : written'[w].data = broadcasts'[k] ]_vars
\* a fragment whose session cannot be resolved, with a filtered and an unfiltered
\* subscriber connected: only the unfiltered one was written to
C21_Witness ==
  /\ Len(broadcasts) = 2 /\ broadcasts[1].event = "fragment"
  /\ broadcasts[1].sessionId = NoSession
  /\ \E c, u \in Subscribers :
       /\ clientSessionMap[c] = SessionA /\ clientSessionMap[u] = NoSession
       /\ written = << [client |-> u, data |-> broadcasts[1]],
                       [client |-> u, data |-> broadcasts[2]] >>


\* ---- C22
\* C22: every approvalDecision event written to a subscriber, for an approval id
\* whose request the server has seen, carries the session id recorded for that
\* request when it arrived (the session of its correlation id at that time).
C22_DecisionCarriesSession ==
  [][ \A w \in 1..Len(written') :
        LET p == written'[w].data
        IN (p.event = "approvalDecision" /\ p.id \in DOMAIN approvalSessionIndex) =>
             p.sessionId = approvalSessionIndex[p.id] ]_vars


OutboundStep ==
  routerOps' # routerOps /\ broadcasts' # << >> /\ broadcasts'[1].event = "fragment"
Frag == broadcasts'[1]
\* no session is recorded for the fragment's correlation id
Unrecorded == Frag.id \notin DOMAIN messageSessionIndex
\* what the step appended to the log of the session at place i of the registry
Appended(i) ==
  SubSeq(sessions'[i].messages, Len(sessions[i].messages) + 1, Len(sessions'[i].messages))
OwnEntry == LogEntry(Frag.id, "outbound", Frag.fragment, Frag.done, FALSE)
OldBuffer ==
  IF Frag.id \in DOMAIN pendingOutboundBuffers THEN pendingOutboundBuffers[Frag.id]
  ELSE [fragments |-> << >>, done |-> FALSE]
\* every correlation id found in a log has its session in the index
LoggedIdsIndexed ==
  \A i \in 1..Len(sessions) : \A k \in 1..Len(sessions[i].messages) :
    sessions[i].messages[k].id \in DOMAIN messageSessionIndex

\* C28 as stated: a fragment whose correlation id has no recorded session is, if
\* exactly one session exists, attributed to that session and appended to its
\* log; otherwise the fragment and its done flag are buffered under its
\* correlation id and nothing is appended to any log.
C28_InferredOrBuffered ==
  [][ (OutboundStep /\ Unrecorded) =>
        IF Len(sessions) = 1
        THEN /\ Frag.sessionId = sessions[1].id
             /\ messageSessionIndex' = MapSet(messageSessionIndex, Frag.id, sessions[1].id)
             /\ Appended(1) # << >> /\ Appended(1)[1] = OwnEntry
             /\ UNCHANGED pendingOutboundBuffers
        ELSE /\ Frag.sessionId = NoSession
             /\ pendingOutboundBuffers' =
                  MapSet(pendingOutboundBuffers, Frag.id,
                         [fragments |-> Append(OldBuffer.fragments, Frag.fragment),
                          done |-> OldBuffer.done \/ Frag.done])
             /\ UNCHANGED << sessions, messageSessionIndex >> ]_vars

\* C28 amended: the same, except that a fragment with an empty text is neither
\* appended to the log as an entry of its own nor added to the buffered texts;
\* its attribution, and its done flag, are handled as for any other fragment.
C28_NonEmptyInferredOrBuffered ==
  /\ []LoggedIdsIndexed
  /\ [][ (OutboundStep /\ Unrecorded) =>
           IF Len(sessions) = 1
           THEN /\ Frag.sessionId = sessions[1].id
                /\ messageSessionIndex' = MapSet(messageSessionIndex, Frag.id, sessions[1].id)
                /\ LET rest == IF Frag.fragment # NoText THEN Tail(Appended(1))
                               ELSE Appended(1)
                   IN /\ Frag.fragment # NoText => Appended(1)[1] = OwnEntry
                      /\ rest = << >> \/ (Frag.done /\ Len(rest) = 1 /\ rest[1].aggregated)
                /\ UNCHANGED pendingOutboundBuffers
           ELSE /\ Frag.sessionId = NoSession
                /\ pendingOutboundBuffers' =
                     MapSet(pendingOutboundBuffers, Frag.id,
                            [fragments |-> IF Frag.fragment # NoText
                                           THEN Append(OldBuffer.fragments, Frag.fragment)
                                           ELSE OldBuffer.fragments,
                             done |-> OldBuffer.done \/ Frag.done])
                /\ UNCHANGED << sessions, messageSessionIndex >> ]_vars
\* two sessions: a fragment and then an empty final fragment were buffered, and no
\* log has grown
C28_Witness ==
  /\ Len(sessions) = 2 /\ \A i \in 1..2 : sessions[i].messages = << >>
  /\ "m1" \in DOMAIN pendingOutboundBuffers
  /\ pendingOutboundBuffers["m1"] = [fragments |-> << << "x" >> >>, done |-> TRUE]
  /\ broadcasts[1] = Payload("fragment", "m1", NoSession, NoText, TRUE, FALSE)


\* ---- C29
\* the step in which the onInbound listener handles a message with a session id
\* whose correlation id has a pending buffer: the session becomes known
FlushStep ==
  /\ routerOps' # routerOps /\ broadcasts' # << >> /\ broadcasts'[1].event = "inbound"
  /\ broadcasts'[1].sessionId # NoSession
  /\ broadcasts'[1].id \in DOMAIN pendingOutboundBuffers
\* what the step appended to the log of session sid (all of it for a new session)
AppendedTo(sid) ==
  LET log == MessagesOf(sessions', sid)
      before == IF HasSession(sessions, sid) THEN Len(MessagesOf(sessions, sid)) ELSE 0
  IN SubSeq(log, before + 1, Len(log))
\* among entries, those that stand for single fragments, and the aggregated ones
FragmentEntries(entries) ==
  SelectSeq(entries, LAMBDA m : m.direction = "outbound" /\ ~m.aggregated)
AggregatedEntries(entries) == SelectSeq(entries, LAMBDA m : m.aggregated)
\* a correlation id with a pending buffer has no session in the index
BufferedIdsUnknown ==
  \A id \in DOMAIN pendingOutboundBuffers : id \notin DOMAIN messageSessionIndex

\* C29: when the session of a buffered correlation id becomes known, all its
\* buffered fragments are appended to that session's log in their arrival order,
\* each exactly once, no other log changes, and the buffer entry of that
\* correlation id (and only that one) is removed.
C29_FlushInArrivalOrder ==
  /\ []BufferedIdsUnknown
  /\ [][ FlushStep =>
           LET id == broadcasts'[1].id
               sid == broadcasts'[1].sessionId
               pending == pendingOutboundBuffers[id]
               flushed == FragmentEntries(AppendedTo(sid))
           IN /\ messageSessionIndex'[id] = sid
              /\ Len(flushed) = Len(pending.fragments)
              /\ \A k \in 1..Len(flushed) :
                   flushed[k] = LogEntry(id, "outbound", pending.fragments[k], FALSE, FALSE)
              /\ \A i \in 1..Len(sessions) :
                   sessions[i].id # sid => sessions'[i] = sessions[i]
              /\ pendingOutboundBuffers' = MapDelete(pendingOutboundBuffers, id) ]_vars
\* two fragments buffered as x then y, another id still buffered, then the inbound
\* message that names session B: the log of B holds x then y
C29_Witness ==
  /\ Len(sessions) = 2 /\ broadcasts # << >> /\ broadcasts[1].event = "inbound"
  /\ FragmentEntries(MessagesOf(sessions, SessionB)) =
       << LogEntry("m1", "outbound", << "x" >>, FALSE, FALSE),
          LogEntry("m1", "outbound", << "y" >>, FALSE, FALSE) >>
  /\ Len(MessagesOf(sessions, SessionB)) = 3
  /\ DOMAIN pendingOutboundBuffers = {"m2"}


\* ---- C30
\* the aggregated final-answer entry of a pending buffer
AggregatedEntry(id, pending) ==
  LogEntry(id, "outbound", JoinTexts(pending.fragments), TRUE, TRUE)

\* C30 as stated: the flush of a buffer marked done appends, after the entries of
\* the single fragments, one aggregated entry whose text is the concatenation of
\* the buffered texts in arrival order; the flush of a buffer not marked done
\* appends no aggregated entry.
C30_DoneFlushAggregates ==
  [][ FlushStep =>
        LET id == broadcasts'[1].id
            pending == pendingOutboundBuffers[id]
            new == AppendedTo(broadcasts'[1].sessionId)
        IN IF pending.done
           THEN /\ AggregatedEntries(new) = << AggregatedEntry(id, pending) >>
                /\ Last(new) = AggregatedEntry(id, pending)
           ELSE AggregatedEntries(new) = << >> ]_vars

\* C30 amended: the aggregated entry is appended when the buffer is marked done
\* and holds at least one text; a buffer marked done that holds none (only
\* fragments with an empty text arrived) is flushed without an aggregated entry,
\* as is a buffer not marked done.
C30_NonEmptyDoneFlushAggregates ==
  [][ FlushStep =>
        LET id == broadcasts'[1].id
            pending == pendingOutboundBuffers[id]
            new == AppendedTo(broadcasts'[1].sessionId)
        IN IF pending.done /\ pending.fragments # << >>
           THEN /\ AggregatedEntries(new) = << AggregatedEntry(id, pending) >>
                /\ Last(new) = AggregatedEntry(id, pending)
                /\ Len(FragmentEntries(new)) = Len(pending.fragments)
           ELSE AggregatedEntries(new) = << >> ]_vars
\* x, then y with the done flag, were buffered; the inbound message for session A
\* flushed them: x, y, then the aggregated entry xy
C30_Witness ==
  /\ Len(sessions) = 2 /\ broadcasts # << >> /\ broadcasts[1].event = "inbound"
  /\ pendingOutboundBuffers = << >>
  /\ LET log == MessagesOf(sessions, SessionA)
     IN /\ Len(log) = 4 /\ log[1].direction = "inbound"
        /\ log[2] = LogEntry("m1", "outbound", << "x" >>, FALSE, FALSE)
        /\ log[3] = LogEntry("m1", "outbound", << "y" >>, FALSE, FALSE)
        /\ log[4] = LogEntry("m1", "outbound", << "x", "y" >>, TRUE, TRUE)


\* ----------------------------------------------------- edit preview diff
\* AgentTools.buildUnifiedDiff.  A content is a string over the characters "a", "r"
\* (carriage return) and "n" (line feed); a line is the sequence of its characters.
MaxContent == 3    \* longest content handed to buildUnifiedDiff

ContentChars == { "a", "r", "n" }

Strings(chars, len) == UNION { [1..k -> chars] : k \in 0..len }

\* str.split(/\r?\n/): a line ends at each line feed, which takes one carriage
\* return standing right before it along
RECURSIVE SplitLines(_, _)
SplitLines(str, line) ==
  IF str = <<>> THEN << line >>
  ELSE IF str[1] = "n"
       THEN << (IF line # <<>> /\ line[Len(line)] = "r"
                THEN SubSeq(line, 1, Len(line) - 1) ELSE line) >>
            \o SplitLines(Tail(str), <<>>)
       ELSE SplitLines(Tail(str), Append(line, str[1]))

Max(a, b) == IF a >= b THEN a ELSE b

\* the table dp of the code, with the code's indices: dp[i][j] is filled from the
\* lines at 0-based positions i and j, and is 0 in row m and in column n
Dp(oldLines, newLines) ==
  LET m == Len(oldLines)
      n == Len(newLines)
      dp[i \in 0..m, j \in 0..n] ==
        IF i = m \/ j = n THEN 0
        ELSE IF oldLines[i + 1] = newLines[j + 1] THEN dp[i + 1, j + 1] + 1
             ELSE Max(dp[i + 1, j], dp[i, j + 1])
  IN dp

\* if (dp[i + 1][j] >= dp[i][j + 1]) oldBuf.push(...) else newBuf.push(...)
TakeOld_OnlyIfBetter(down, right) == down > right
TakeOld(down, right) == down >= right

\* one hunk under construction: the position reached, the two buffers, and the
\* order in which lines were pushed (side, i, j at the push)
PushOld(h, oldLines) ==
  [h EXCEPT !.i = h.i + 1, !.oldLines = Append(h.oldLines, oldLines[h.i + 1]),
            !.pushes = Append(h.pushes, << "old", h.i, h.j >>)]
PushNew(h, newLines) ==
  [h EXCEPT !.j = h.j + 1, !.newLines = Append(h.newLines, newLines[h.j + 1]),
            !.pushes = Append(h.pushes, << "new", h.i, h.j >>)]

\* while (i < m && j < n && oldLines[i] !== newLines[j]) { choose direction }
RECURSIVE Mismatched(_, _, _, _)
Mismatched(h, oldLines, newLines, dp) ==
  IF h.i < Len(oldLines) /\ h.j < Len(newLines)
     /\ oldLines[h.i + 1] # newLines[h.j + 1]
  THEN IF TakeOld(dp[h.i + 1, h.j], dp[h.i, h.j + 1])
       THEN Mismatched(PushOld(h, oldLines), oldLines, newLines, dp)
       ELSE Mismatched(PushNew(h, newLines), oldLines, newLines, dp)
  ELSE h

\* while (i < m && (j >= n || dp[i][j] === dp[i + 1][j])) oldBuf.push(oldLines[i++])
RECURSIVE DrainOld(_, _, _, _)
DrainOld(h, oldLines, newLines, dp) ==
  IF h.i < Len(oldLines) /\ (h.j >= Len(newLines) \/ dp[h.i, h.j] = dp[h.i + 1, h.j])
  THEN DrainOld(PushOld(h, oldLines), oldLines, newLines, dp)
  ELSE h

\* while (j < n && (i >= m || dp[i][j] === dp[i][j + 1])) newBuf.push(newLines[j++])
RECURSIVE DrainNew(_, _, _, _)
DrainNew(h, oldLines, newLines, dp) ==
  IF h.j < Len(newLines) /\ (h.i >= Len(oldLines) \/ dp[h.i, h.j] = dp[h.i, h.j + 1])
  THEN DrainNew(PushNew(h, newLines), oldLines, newLines, dp)
  ELSE h

\* the tail: while (i < m) oldBuf.push(oldLines[i++]); while (j < n) newBuf.push(...)
RECURSIVE RestOld(_, _)
RestOld(h, oldLines) ==
  IF h.i < Len(oldLines) THEN RestOld(PushOld(h, oldLines), oldLines) ELSE h

RECURSIVE RestNew(_, _)
RestNew(h, newLines) ==
  IF h.j < Len(newLines) THEN RestNew(PushNew(h, newLines), newLines) ELSE h

StartHunk(i, j) ==
  [i |-> i, j |-> j, oldStart |-> i + 1, newStart |-> j + 1,
   oldLines |-> <<>>, newLines |-> <<>>, pushes |-> <<>>]

\* hunks.push({ oldStart, oldLines: oldBuf, newStart, newLines: newBuf })
Hunk(h) ==
  [oldStart |-> h.oldStart, oldLines |-> h.oldLines,
   newStart |-> h.newStart, newLines |-> h.newLines, pushes |-> h.pushes]

\* the outer while loop and the tail
RECURSIVE Hunks(_, _, _, _, _, _)
Hunks(i, j, oldLines, newLines, dp, acc) ==
  LET m == Len(oldLines)
      n == Len(newLines)
  IN IF i < m /\ j < n
     THEN IF oldLines[i + 1] = newLines[j + 1]
          THEN Hunks(i + 1, j + 1, oldLines, newLines, dp, acc)
          ELSE LET h == DrainNew(DrainOld(Mismatched(StartHunk(i, j), oldLines, newLines, dp),
                                          oldLines, newLines, dp),
                                 oldLines, newLines, dp)
               IN Hunks(h.i, h.j, oldLines, newLines, dp, Append(acc, Hunk(h)))
     ELSE IF i < m \/ j < n
          THEN Append(acc, Hunk(RestNew(RestOld(StartHunk(i, j), oldLines), newLines)))
          ELSE acc

BuildHunks(old, new) ==
  LET oldLines == SplitLines(old, <<>>)
      newLines == SplitLines(new, <<>>)
  IN Hunks(0, 0, oldLines, newLines, Dp(oldLines, newLines), <<>>)

\* the text returned: the two header lines, then for every hunk that holds a line
\* its @@ line, its old lines marked '-' and its new lines marked '+'
DiffLine(mark, text) == [mark |-> mark, text |-> text]

RECURSIVE HunkStrs(_)
HunkStrs(hs) ==
  IF hs = <<>> THEN <<>>
  ELSE LET h == hs[1]
       IN (IF h.oldLines # <<>> \/ h.newLines # <<>>
           THEN << DiffLine("@@", << h.oldStart, Len(h.oldLines),
                                     h.newStart, Len(h.newLines) >>) >>
                \o [k \in 1..Len(h.oldLines) |-> DiffLine("-", h.oldLines[k])]
                \o [k \in 1..Len(h.newLines) |-> DiffLine("+", h.newLines[k])]
           ELSE <<>>)
          \o HunkStrs(Tail(hs))

UnifiedDiff(filePath, hs) ==
  << DiffLine("---", filePath), DiffLine("+++", filePath) >> \o HunkStrs(hs)

\* editFile builds the preview of replacing the content oldStr by newStr
BuildUnifiedDiff ==
  /\ hunks = <<>>
  /\ hunks' = << BuildHunks(oldStr, newStr) >>
  /\ UNCHANGED << oldStr, newStr, fullText, parsedText >>
  /\ UNCHANGED << toolVars, runVars, busVars, routerVars >>

InitDiff ==
  /\ InitEngine /\ InitRun /\ InitBus /\ NotStarted
  /\ bulk = 0 /\ batch = <<>> /\ tpc = "returned"
  /\ opts = [allowedRoots |-> << Star >>, requireApproval |-> TRUE, bus |-> TRUE]
  /\ oldStr \in Strings(ContentChars, MaxContent)
  /\ newStr \in Strings(ContentChars, MaxContent)
  /\ hunks = <<>> /\ fullText = <<>> /\ parsedText = <<>>

NextDiff == BuildUnifiedDiff

SpecDiff == InitDiff /\ [][NextDiff]_vars

\* the length of a longest common subsequence of two line sequences, from its
\* definition: the most lines a selection of positions of `a` can hold while
\* still being a subsequence of `b`
RECURSIVE IsSubsequence(_, _)
IsSubsequence(s, t) ==
  IF s = <<>> THEN TRUE
  ELSE IF t = <<>> THEN FALSE
  ELSE IF s[1] = t[1] THEN IsSubsequence(Tail(s), Tail(t))
  ELSE IsSubsequence(s, Tail(t))

Selection(a, keep) == SelectSeq([k \in 1..Len(a) |-> << k, a[k] >>], LAMBDA e : e[1] \in keep)

LcsLength(a, b) ==
  LET common == { keep \in SUBSET (1..Len(a)) :
                    IsSubsequence([k \in 1..Cardinality(keep) |-> Selection(a, keep)[k][2]], b) }
  IN CHOOSE l \in 0..Len(a) :
       /\ \E keep \in common : Cardinality(keep) = l
       /\ \A keep \in common : Cardinality(keep) <= l

From(lines, i) == SubSeq(lines, i + 1, Len(lines))
Marked(mark, lines) == Len(SelectSeq(lines, LAMBDA l : l.mark = mark))
OldLinesOfPreview == SplitLines(oldStr, <<>>)
NewLinesOfPreview == SplitLines(newStr, <<>>)

\* C31: for any old and new content the preview marks exactly (old line count - L)
\* lines as removed and (new line count - L) lines as added, L being the length of
\* a longest common subsequence of the two line sequences; and a new line is
\* consumed while an old line is left only where that is strictly better, so that
\* on a tie the old line is consumed first
C31_MinimalDiffOldFirst ==
  hunks # <<>> =>
    LET text == UnifiedDiff("p", hunks[1])
        l == LcsLength(OldLinesOfPreview, NewLinesOfPreview)
    IN /\ Marked("-", text) = Len(OldLinesOfPreview) - l
       /\ Marked("+", text) = Len(NewLinesOfPreview) - l
       /\ \A h \in 1..Len(hunks[1]) : \A k \in 1..Len(hunks[1][h].pushes) :
            LET p == hunks[1][h].pushes[k]
            IN (p[1] = "new" /\ p[2] < Len(OldLinesOfPreview)) =>
                 LcsLength(From(OldLinesOfPreview, p[2] + 1), From(NewLinesOfPreview, p[3]))
                   < LcsLength(From(OldLinesOfPreview, p[2]), From(NewLinesOfPreview, p[3] + 1))

\* the contents "a\n" and "\na": dropping the old line "a" and adding the new empty
\* line keep a common line each, and the old line went first
C31_Witness ==
  /\ oldStr = << "a", "n" >> /\ newStr = << "n", "a" >>
  /\ hunks # <<>>
  /\ Len(hunks[1]) = 2
  /\ hunks[1][1].pushes = << << "old", 0, 0 >> >>
  /\ hunks[1][2].pushes = << << "new", 2, 1 >> >>


\* ------------------------------------------------- candidate extraction
\* AgentController.extractJsonCandidates and the parse loop of run.  A response
\* text is a string over: "{", "}", a digit "1", a line feed "n", "T" standing for
\* three backticks and "j" standing for the word json.
MaxText == 6       \* longest response text handed to extractJsonCandidates

TextChars == { "{", "}", "1", "n", "T", "j" }

\* String.prototype.trim on these texts: line feeds are the only white space
RECURSIVE TrimStart(_)
TrimStart(s) == IF s # <<>> /\ s[1] = "n" THEN TrimStart(Tail(s)) ELSE s

RECURSIVE TrimEnd(_)
TrimEnd(s) ==
  IF s # <<>> /\ s[Len(s)] = "n" THEN TrimEnd(SubSeq(s, 1, Len(s) - 1)) ELSE s

Trim(s) == TrimEnd(TrimStart(s))

\* a candidate as found: its text and the position of its last character in the
\* response (the code keeps the text only)
Candidate(text, at) == [text |-> text, at |-> at]

\* where the content of a fence opened at p starts: ``` (?:json)? \n ; 0 if no
\* fence opens at p
ContentStart(text, p) ==
  IF p > Len(text) \/ text[p] # "T" THEN 0
  ELSE IF p + 2 <= Len(text) /\ text[p + 1] = "j" /\ text[p + 2] = "n" THEN p + 3
  ELSE IF p + 1 <= Len(text) /\ text[p + 1] = "n" THEN p + 2
  ELSE 0

\* ([\s\S]*?)``` : the content runs up to the first ``` at or after its start
ClosingFence(text, from) ==
  LET closes == { q \in from..Len(text) : text[q] = "T" }
  IN IF closes = {} THEN 0 ELSE CHOOSE q \in closes : \A r \in closes : q <= r

\* while ((m = fenceRegex.exec(text)) !== null) candidates.push(m[1].trim())
RECURSIVE FencedBlocks(_, _)
FencedBlocks(text, from) ==
  LET opens == { p \in from..Len(text) :
                   ContentStart(text, p) # 0 /\ ClosingFence(text, ContentStart(text, p)) # 0 }
  IN IF opens = {} THEN <<>>
     ELSE LET p == CHOOSE o \in opens : \A r \in opens : o <= r
              start == ContentStart(text, p)
              close == ClosingFence(text, start)
          IN << Candidate(Trim(SubSeq(text, start, close - 1)), close - 1) >>
             \o FencedBlocks(text, close + 1)

\* the brace matching loop over the whole text, with its stack of open positions
RECURSIVE TopLevelObjects(_, _, _)
TopLevelObjects(text, i, stack) ==
  IF i > Len(text) THEN <<>>
  ELSE IF text[i] = "{" THEN TopLevelObjects(text, i + 1, Append(stack, i))
  ELSE IF text[i] = "}" /\ stack # <<>>
       THEN LET start == stack[Len(stack)]
                rest == SubSeq(stack, 1, Len(stack) - 1)
                obj == Trim(SubSeq(text, start, i))
            IN (IF rest = <<>> /\ obj[1] = "{" /\ obj[Len(obj)] = "}"
                THEN << Candidate(obj, i) >> ELSE <<>>)
               \o TopLevelObjects(text, i + 1, rest)
       ELSE TopLevelObjects(text, i + 1, stack)

Reverse(s) == [k \in 1..Len(s) |-> s[Len(s) + 1 - k]]

\* Array.from(new Set(list)): the first occurrence of each text, in order
RECURSIVE Deduplicated(_)
Deduplicated(list) ==
  IF list = <<>> THEN <<>>
  ELSE << list[1] >> \o Deduplicated(SelectSeq(Tail(list), LAMBDA c : c # list[1]))

\* candidates.reverse(), on the list holding the fenced blocks, then the objects
Merged(fenced, objects) == Reverse(fenced \o objects)

Found(text) == Merged(FencedBlocks(text, 1), TopLevelObjects(text, 1, <<>>))

ExtractJsonCandidates(text) ==
  Deduplicated([k \in 1..Len(Found(text)) |-> Found(text)[k].text])

\* JSON.parse on these texts: white space, then a number or an object without
\* members (a member needs a string), then white space
IsNumber(s) == s # <<>> /\ \A k \in 1..Len(s) : s[k] = "1"
IsObject(s) ==
  /\ Len(s) >= 2 /\ s[1] = "{" /\ s[Len(s)] = "}"
  /\ \A k \in 2..(Len(s) - 1) : s[k] = "n"
JsonParses(s) == IsNumber(Trim(s)) \/ IsObject(Trim(s))

\* for (const c of candidates) { try { parsed = JSON.parse(c); rawJson = c; break } catch {} }
FirstParsing(candidates) ==
  LET ok == { k \in 1..Len(candidates) : JsonParses(candidates[k]) }
  IN IF ok = {} THEN [parsed |-> FALSE, rawJson |-> <<>>]
     ELSE [parsed |-> TRUE, rawJson |-> candidates[CHOOSE k \in ok : \A r \in ok : k <= r]]

\* one iteration of run, from the streamed text to `parsed`
ExtractAndParse ==
  /\ parsedText = <<>>
  /\ parsedText' = << FirstParsing(ExtractJsonCandidates(fullText)) >>
  /\ UNCHANGED << oldStr, newStr, hunks, fullText >>
  /\ UNCHANGED << toolVars, runVars, busVars, routerVars >>

InitExtract ==
  /\ InitEngine /\ InitRun /\ InitBus /\ NotStarted
  /\ bulk = 0 /\ batch = <<>> /\ tpc = "returned"
  /\ opts = [allowedRoots |-> << Star >>, requireApproval |-> TRUE, bus |-> TRUE]
  /\ oldStr = <<>> /\ newStr = <<>> /\ hunks = <<>>
  /\ fullText \in Strings(TextChars, MaxText)
  /\ parsedText = <<>>

NextExtract == ExtractAndParse

SpecExtract == InitExtract /\ [][NextExtract]_vars

\* every candidate either strategy finds in the response, with its position
Occurrences ==
  LET fenced == FencedBlocks(fullText, 1)
      objects == TopLevelObjects(fullText, 1, <<>>)
  IN { fenced[k] : k \in 1..Len(fenced) } \cup { objects[k] : k \in 1..Len(objects) }

ParsingOccurrences == { c \in Occurrences : JsonParses(c.text) }

\* C32: the step's structured output is the candidate, among those the fenced-block
\* strategy and the brace scan find, that parses and appears latest in the response
\* text (and there is none exactly when no candidate parses)
C32_LatestParsingCandidate ==
  parsedText # <<>> =>
    IF ParsingOccurrences = {} THEN ~parsedText[1].parsed
    ELSE /\ parsedText[1].parsed
         /\ \E c \in ParsingOccurrences :
              /\ c.text = parsedText[1].rawJson
              /\ \A d \in ParsingOccurrences : d.at <= c.at


\* ------------------------------------------- two runs sharing one Tool Engine
\* extension.ts builds one AgentTools and one AgentController; every POST /message
\* in agent mode and every chat request calls agent.run on them, also while an
\* earlier run is suspended at an await.  Of the second run its first synchronous
\* stretch is modelled, from the call to its first await (selectChatModels): it
\* sets the engine's correlation id and builds its own history.  It is then left
\* waiting for the model.
OtherRunIds == {"r2"}

RunSuspended == pc \in {"select", "request"} \/ (pc = "executing" /\ tpc = "awaitApproval")

SecondRun(id) ==
  /\ RunSuspended
  /\ id # runOpts.id /\ currentCorrelationId # id
  /\ currentCorrelationId' = id
  /\ UNCHANGED << opts, bulk, files, dirs, ioLog, approvalVars, decisions,
                  tpc, batch, ai, results, awaiting >>
  /\ UNCHANGED << runVars, busVars, routerVars, fnVars >>

NextShared ==
  \/ Next
  \/ \E id \in OtherRunIds : SecondRun(id)

SpecShared == InitAgent /\ [][NextShared]_vars

\* C33: when two runs share one Tool Engine and interleave at suspension points,
\* every ApprovalRequest emitted for an action of run R carries R's correlation id
\* (all the actions executed here are those of the run runOpts.id)
C33_RequestCarriesOwnRun ==
  \A k \in 1..Len(approvalRequests) : approvalRequests[k].correlationId = runOpts.id


\* ------------------------------ decisions published from a request listener
\* execute(batch) on a bus one of whose approval-request listeners answers at
\* once, inside emitApprovalRequest
NextInline ==
  \/ NextTools
  \/ \E approved \in BOOLEAN : ExecWriteBeginAnswered(approved)

SpecInline == InitTools /\ [][NextInline]_vars

Outcome(approved) == IF approved THEN "approved" ELSE "rejected"

\* the decisions a step publishes for an approval whose request is published and
\* whose action is still waiting
PublishedWhileWaiting ==
  { d \in decisions' \ decisions :
      /\ \E k \in 1..Len(approvalRequests') : approvalRequests'[k].approvalId = d.approvalId
      /\ d.approvalId \in DOMAIN promise => promise[d.approvalId] = "pending" }

\* C34: a decision for approvalId X published at any time after X's ApprovalRequest
\* was published, also from inside a request listener while the request is still
\* being delivered, resolves the waiting action with that decision
C34_DecisionNeverLost ==
  [][ \A d \in PublishedWhileWaiting : promise'[d.approvalId] = Outcome(d.approved) ]_vars


\* ------------------------------------- files appearing during an approval wait
\* While a createFile action waits for its decision, something else (a createFile
\* of an interleaved run on the same workspace, the user's editor) creates the
\* target; the engine makes no call for it, so nothing is logged.
FileAppears(content) ==
  /\ tpc = "awaitApproval" /\ batch[ai].tool = "createFile"
  /\ awaiting.kind = "promise" /\ promise[awaiting.id] = "pending"
  /\ LET abs == Join(batch[ai].path)
         dir == Dirname(abs)
     IN /\ ~Exists(abs)
        /\ \A d \in Ancestors(dir) : d \notin DOMAIN files
        /\ files' = (abs :> Utf8Encode(content)) @@ files
        /\ dirs' = dirs \cup Ancestors(dir)
  /\ UNCHANGED << opts, bulk, ioLog, currentCorrelationId, approvalVars, decisions,
                  tpc, batch, ai, results, awaiting >>
  /\ UNCHANGED << runVars, busVars, routerVars, fnVars >>

NextRace ==
  \/ NextTools
  \/ FileAppears(TextOld)

SpecRace == InitTools /\ [][NextRace]_vars

\* the step in which a createFile action comes back from its approval wait
CreateResumes ==
  /\ tpc = "awaitApproval" /\ tpc' # "awaitApproval"
  /\ batch[ai].tool = "createFile"

\* C35: createFile never replaces the content of a file that exists at the moment
\* of its write; if the target came into existence while the action was waiting
\* for approval, the action fails instead of overwriting it
C35_CreateNeverOverwrites ==
  [][ (CreateResumes /\ Join(batch[ai].path) \in DOMAIN files) =>
        /\ files'[Join(batch[ai].path)] = files[Join(batch[ai].path)]
        /\ ~results'[Len(results')].success ]_vars


\* --------------------------------------------------- length of one run
\* A run with maxSteps 1 in which every model call and every tool action
\* returns: no call rejects, every approval is decided or times out.  A run whose
\* responses all parse makes at most 3 * maxSteps model calls (two empty-action
\* retries and one batch per counted step), so runs are followed one call further.
LoopCalls == MaxCalls + 1

NextLoop ==
  \/ AgentRun("r1", 1)
  \/ \E outcome \in {"model", "none"} : SelectModelWithin(LoopCalls, outcome)
  \/ \E r \in Responses : ModelResponds(r)
  \/ ExecuteReturns
  \/ ToolSteps
  \/ \E id \in RecentIds, approved \in BOOLEAN : ApprovalDecision(id, approved)
  \/ \E id \in RecentIds : ApprovalTimeout(id)

SpecLoop == InitAgent /\ [][NextLoop]_vars

\* C36: when every model call and every tool action returns, a run terminates after
\* a number of model calls bounded in terms of maxSteps, whatever texts the model
\* returns: here by 3 * maxSteps, the most calls a run makes when all texts parse
C36_CallsBoundedByMaxSteps == Len(calls) <= 3 * runOpts.maxSteps


\* ---- C37
\* the step in which the onOutbound listener appends a fragment with a text to the
\* log of the session it resolved
DirectAppend ==
  /\ OutboundStep /\ Frag.fragment # NoText
  /\ Frag.sessionId # NoSession /\ HasSession(sessions, Frag.sessionId)
\* the subscribers connected with filter sid
FilteredTo(sid) ==
  { sseClients[c] : c \in { q \in 1..Len(sseClients) : clientSessionMap[sseClients[q]] = sid } }
WrittenTo(client, data) ==
  \E w \in 1..Len(written') : written'[w] = [client |-> client, data |-> data]

\* C37: every outbound fragment that ends up in session S's log was delivered to
\* every subscriber registered with filter S when the fragment was published:
\* when it is appended at once, the subscribers of S are written it in that step;
\* when it was buffered first, none of them was passed over at its publication
C37_LoggedFragmentsWereDelivered ==
  [][ /\ DirectAppend => \A c \in FilteredTo(Frag.sessionId) : WrittenTo(c, Frag)
      /\ FlushStep => \A u \in passedOver :
                        u.id = broadcasts'[1].id => u.filter # broadcasts'[1].sessionId ]_vars


\* ---- C38
\* the step in which an inbound message with a session id is handled, submitted by
\* POST /message or published on the bus by the chat participant
InboundStep ==
  /\ routerOps' # routerOps /\ broadcasts' # << >> /\ broadcasts'[1].event = "inbound"
  /\ broadcasts'[1].sessionId # NoSession
\* the entries of a log that hold the inbound message id: the message as pushed by
\* the /message handler (no direction) or by the onInbound listener ("inbound")
InboundEntries(log, id) ==
  SelectSeq(log, LAMBDA m : m.id = id /\ m.direction # "outbound")
\* the id was not submitted before: no log holds the message
FirstSubmission(id) ==
  \A i \in 1..Len(sessions) : InboundEntries(sessions[i].messages, id) = << >>

\* C38: each inbound message id appears exactly once as an inbound entry in its
\* session's log, whichever entry point submitted it (HTTP /message with a known
\* session id, or a bus inbound from chat)
C38_InboundLoggedOnce ==
  [][ (InboundStep /\ FirstSubmission(broadcasts'[1].id)) =>
        Len(InboundEntries(MessagesOf(sessions', broadcasts'[1].sessionId),
                           broadcasts'[1].id)) = 1 ]_vars


\* ---- C39
\* the sessions whose log holds an entry bearing the correlation id
LogsBearing(sess, id) ==
  { sess[i].id : i \in { q \in 1..Len(sess) :
                           \E k \in 1..Len(sess[q].messages) : sess[q].messages[k].id = id } }
\* the step submits again an inbound id that a log already holds
Resubmission ==
  /\ broadcasts' # << >> /\ broadcasts'[1].event = "inbound"
  /\ ~FirstSubmission(broadcasts'[1].id)

\* C39: an index entry correlationId -> sessionId, once recorded (from an inbound
\* message or by single-session inference), never changes to a different session,
\* so that all log entries bearing one correlation id lie in a single session's
\* log (inbound ids are taken to be submitted once)
C39_IndexEntryStable ==
  [][ ~Resubmission =>
        \A id \in DOMAIN messageSessionIndex :
          /\ id \in DOMAIN messageSessionIndex'
          /\ messageSessionIndex'[id] = messageSessionIndex[id]
          /\ Cardinality(LogsBearing(sessions, id)) <= 1
               => Cardinality(LogsBearing(sessions', id)) <= 1 ]_vars


\* ---- C40
\* C40: no correlation id remains in the pending-fragment buffer once its run has
\* emitted its done fragment and its inbound message has been processed by the
\* Router (every buffered fragment is then in a session's log)
C40_NoBufferLeftBehind ==
  \A id \in DOMAIN pendingOutboundBuffers :
    ~(pendingOutboundBuffers[id].done /\ id \in inboundHandled)

====
